---- MODULE Spec2Model ----
(***************************************************************************)
(* Model of the conversational health assistant: the session state machine *)
(* of HealthAgentSystem (main.py), the HealthAgent tool layer              *)
(* (agui_app.py), the per-user domain handlers (agents/*.py) and the       *)
(* relational store (utils/database.py).                                   *)
(*                                                                         *)
(* Text is modelled by TLA+ strings; every lexical rule of the source is   *)
(* computed character by character on them.  Python's None is the value    *)
(* None below.                                                             *)
(***************************************************************************)
EXTENDS Integers, Sequences, FiniteSets, TLC

\* ------------------------------------------------------------------------
\* Bounds of the model
\* ------------------------------------------------------------------------

\* Turns that write to the store are accepted while the store holds fewer
\* rows than this.
MaxRows == 1

\* ------------------------------------------------------------------------
\* Python values and string primitives
\* ------------------------------------------------------------------------

None == "<None>"

UPPER == "ABCDEFGHIJKLMNOPQRSTUVWXYZ"

LOWER == "abcdefghijklmnopqrstuvwxyz"

DIGITS == "0123456789"

HEXDASH == "abcdef0123456789-"

WHITESPACE == " \t\n\r"

Char(text, i) == SubSeq(text, i, i)

InClass(c, class) == \E i \in 1..Len(class) : Char(class, i) = c

LowerChar(c) ==
    IF InClass(c, UPPER)
    THEN Char(LOWER, CHOOSE i \in 1..Len(UPPER) : Char(UPPER, i) = c)
    ELSE c

RECURSIVE Lower(_)
Lower(text) ==
    IF Len(text) = 0 THEN ""
    ELSE LowerChar(Char(text, 1)) \o Lower(SubSeq(text, 2, Len(text)))

RECURSIVE LStrip(_)
LStrip(text) ==
    IF Len(text) > 0 /\ InClass(Char(text, 1), WHITESPACE)
    THEN LStrip(SubSeq(text, 2, Len(text)))
    ELSE text

RECURSIVE RStrip(_)
RStrip(text) ==
    IF Len(text) > 0 /\ InClass(Char(text, Len(text)), WHITESPACE)
    THEN RStrip(SubSeq(text, 1, Len(text) - 1))
    ELSE text

Strip(text) == LStrip(RStrip(text))

\* Python "word in text"
Contains(text, word) ==
    \E i \in 1..(Len(text) - Len(word) + 1) :
        SubSeq(text, i, i + Len(word) - 1) = word

StartsWith(text, prefix) ==
    Len(text) >= Len(prefix) /\ SubSeq(text, 1, Len(prefix)) = prefix

AllIn(text, class) == \A i \in 1..Len(text) : InClass(Char(text, i), class)

\* A regex anchored with ^...$ under re.match also accepts one trailing
\* newline after the body.
DropFinalNewline(text) ==
    IF Len(text) > 0 /\ Char(text, Len(text)) = "\n"
    THEN SubSeq(text, 1, Len(text) - 1)
    ELSE text

\* The text from position i up to (not including) the next newline: what
\* the regex (.+) can consume from i.
RestOfLine(text, i) ==
    LET stops == {j \in i..Len(text) : Char(text, j) = "\n"}
        last  == IF stops = {} THEN Len(text)
                 ELSE (CHOOSE j \in stops : \A k \in stops : j <= k) - 1
    IN  SubSeq(text, i, last)

\* ------------------------------------------------------------------------
\* The users table of the store (read-only to the program)
\* ------------------------------------------------------------------------

Profile(id, name, city, diet, conditions) ==
    [user_id |-> id, name |-> name, city |-> city,
     dietary_category |-> diet, medical_conditions |-> conditions]

\* Rows of the users table, in table order.  Two profiles share a name and
\* one has a hex-like id.
UsersTable ==
    << Profile("1001", "Jane Doe", "Austin", "vegan", {"None"}),
       Profile("1002", "Jane Doe", "Boston", "omnivore", {"Type 2 Diabetes"}),
       Profile("ab12cd34", "John Smith", "Denver", "vegetarian", {"Type 1 Diabetes", "Hypertension"}) >>

UserIds == {UsersTable[i].user_id : i \in 1..Len(UsersTable)}

NoUser == Profile(None, None, None, None, {})

\* DatabaseManager.validate_user_id: the profile whose user_id equals the
\* argument, or NoUser (Python None) when there is none.
DbValidateUserId(user_id) ==
    IF \E i \in 1..Len(UsersTable) : UsersTable[i].user_id = user_id
    THEN UsersTable[CHOOSE i \in 1..Len(UsersTable) : UsersTable[i].user_id = user_id]
    ELSE NoUser

RECURSIVE SelectNameLike(_, _)
SelectNameLike(rows, pattern) ==
    IF rows = <<>> THEN <<>>
    ELSE LET r == Head(rows)
             rest == SelectNameLike(Tail(rows), pattern)
         IN  IF Contains(Lower(r.name), Lower(pattern))
             THEN <<[user_id |-> r.user_id, name |-> r.name, city |-> r.city]>> \o rest
             ELSE rest

\* A variant that returns the first matching row only.
FirstUserByName(name) == SubSeq(SelectNameLike(UsersTable, name), 1, 1)

\* DatabaseManager.get_user_by_name: name LIKE '%<name>%' (LIKE ignores
\* ASCII case; the inputs of the model contain no LIKE wildcard).
DbGetUserByName(name) == SelectNameLike(UsersTable, name)

\* ------------------------------------------------------------------------
\* Authentication resolver: lexical rules (HealthAgentSystem)
\* ------------------------------------------------------------------------

\* re.match(r'^\d{4}$', text)
MatchesFourDigits(text) ==
    LET body == DropFinalNewline(text)
    IN  Len(body) = 4 /\ AllIn(body, DIGITS)

\* re.match(r'^[a-f0-9-]{8,}$', text.lower())
MatchesHexToken(text) ==
    LET body == DropFinalNewline(Lower(text))
    IN  Len(body) >= 8 /\ AllIn(body, HEXDASH)

\* re.match(r'^[a-f0-9]{8}-[a-f0-9]{4}-[a-f0-9]{4}-[a-f0-9]{4}-[a-f0-9]{12}$', text.lower())
MatchesUuid(text) ==
    LET body == DropFinalNewline(Lower(text))
        HEX == "abcdef0123456789"
    IN  /\ Len(body) = 36
        /\ \A i \in 1..36 :
              IF i \in {9, 14, 19, 24} THEN Char(body, i) = "-"
              ELSE InClass(Char(body, i), HEX)

\* A variant that accepts any run of four or more digits.
LooksLikeUserIdLoose(text) ==
    (Len(text) >= 4 /\ AllIn(text, DIGITS)) \/ MatchesHexToken(text) \/ MatchesUuid(text)

looks_like_user_id(text) ==
    MatchesFourDigits(text) \/ MatchesHexToken(text) \/ MatchesUuid(text)

NameSearchPhrases == <<"my name is", "i am", "name:", "called", "i'm">>

looks_like_name_search(text) ==
    \E k \in 1..Len(NameSearchPhrases) : Contains(Lower(text), NameSearchPhrases[k])

\* Positions at which re.search finds  <literal>(.+)  in text: the literal
\* occurs there and at least one character of the same line follows it.
LiteralThenSome(text, literal) ==
    {i \in 1..(Len(text) - Len(literal) + 1) :
        /\ SubSeq(text, i, i + Len(literal) - 1) = literal
        /\ Len(RestOfLine(text, i + Len(literal))) >= 1}

Leftmost(S) == CHOOSE i \in S : \A j \in S : i <= j

\* group(1) of re.search(<literal>(.+), text), given that it matches
GroupAfterLiteral(text, literal) ==
    RestOfLine(text, Leftmost(LiteralThenSome(text, literal)) + Len(literal))

\* re.search(r"name:?\s*(.+)", text).  After "name" at position i the
\* regex consumes c colons (at most one), then n white-space characters,
\* then at least one character of the current line.
NameSplits(text, i) ==
    {cn \in (0..1) \X (0..Len(text)) :
        LET from == i + 4 + cn[1]
        IN  /\ SubSeq(text, i, i + 3) = "name"
            /\ cn[1] = 1 => Char(text, i + 4) = ":"
            /\ from + cn[2] <= Len(text)
            /\ \A k \in from..(from + cn[2] - 1) : InClass(Char(text, k), WHITESPACE)
            /\ Len(RestOfLine(text, from + cn[2])) >= 1}

NameMatches(text) == {i \in 1..(Len(text) - 3) : NameSplits(text, i) # {}}

\* group(1) of that search, given that it matches: leftmost position, the
\* colon taken when possible, then as much white space as possible.
GroupAfterName(text) ==
    LET i == Leftmost(NameMatches(text))
        splits == NameSplits(text, i)
        c == IF \E cn \in splits : cn[1] = 1 THEN 1 ELSE 0
        n == CHOOSE n \in {cn[2] : cn \in {x \in splits : x[1] = c}} :
                 \A cn \in splits : cn[1] = c => cn[2] <= n
    IN  RestOfLine(text, i + 4 + c + n)

extract_name_from_input(text) ==
    LET low == Lower(text)
    IN  IF LiteralThenSome(low, "my name is ") # {} THEN Strip(GroupAfterLiteral(low, "my name is "))
        ELSE IF LiteralThenSome(low, "i am ") # {} THEN Strip(GroupAfterLiteral(low, "i am "))
        ELSE IF NameMatches(low) # {} THEN Strip(GroupAfterName(low))
        ELSE IF LiteralThenSome(low, "called ") # {} THEN Strip(GroupAfterLiteral(low, "called "))
        ELSE IF LiteralThenSome(low, "i'm ") # {} THEN Strip(GroupAfterLiteral(low, "i'm "))
        ELSE Strip(text)

\* ------------------------------------------------------------------------
\* Regular expressions used by re.search: a pattern is a sequence of
\* elements, matched left to right with backtracking.
\* ------------------------------------------------------------------------

WORDCHARS == "abcdefghijklmnopqrstuvwxyzABCDEFGHIJKLMNOPQRSTUVWXYZ0123456789_"

Lit(words)  == [kind |-> "lit",  words |-> words, class |-> ""]

Opt(c)      == [kind |-> "opt",  words |-> {c},   class |-> ""]

OneOrMore(class) == [kind |-> "some", words |-> {},    class |-> class]

ZeroOrMore(class)  == [kind |-> "any",  words |-> {},    class |-> class]

AnyOnLine   == [kind |-> "dots", words |-> {},    class |-> ""]

RECURSIVE MatchAt(_, _, _)
MatchAt(text, i, pat) ==
    IF pat = <<>> THEN TRUE
    ELSE LET e == Head(pat)
             rest == Tail(pat)
             run(n) == \A k \in i..(i + n - 1) :
                          IF e.kind = "dots" THEN Char(text, k) # "\n"
                          ELSE InClass(Char(text, k), e.class)
         IN  CASE e.kind = "lit" ->
                    \E w \in e.words :
                        /\ i + Len(w) - 1 <= Len(text)
                        /\ SubSeq(text, i, i + Len(w) - 1) = w
                        /\ MatchAt(text, i + Len(w), rest)
               [] e.kind = "opt" ->
                    \/ MatchAt(text, i, rest)
                    \/ \E w \in e.words :
                        /\ i + Len(w) - 1 <= Len(text)
                        /\ SubSeq(text, i, i + Len(w) - 1) = w
                        /\ MatchAt(text, i + Len(w), rest)
               [] e.kind = "some" ->
                    \E n \in 1..(Len(text) - i + 1) : run(n) /\ MatchAt(text, i + n, rest)
               [] OTHER ->
                    \E n \in 0..(Len(text) - i + 1) : run(n) /\ MatchAt(text, i + n, rest)

\* re.search(pattern, text) is not None
Search(text, pat) == \E i \in 1..(Len(text) + 1) : MatchAt(text, i, pat)

\* sum(weight for word in words if word in text)
Hits(words, text) == Cardinality({k \in 1..Len(words) : Contains(text, words[k])})

AnyOf(words, text) == \E k \in 1..Len(words) : Contains(text, words[k])

\* ------------------------------------------------------------------------
\* Intent classifier (HealthAgentSystem._detect_primary_intent)
\* ------------------------------------------------------------------------

mood_direct == <<"feel", "mood", "feeling", "emotions", "emotional">>

mood_positive == <<"happy", "great", "awesome", "fantastic", "wonderful", "excited", "thrilled", "amazing", "good", "better", "cheerful", "joyful", "elated", "ecstatic">>

mood_negative == <<"sad", "terrible", "awful", "horrible", "bad", "worse", "depressed", "down", "low", "upset", "angry", "frustrated", "stressed", "anxious", "worried", "scared", "tired", "exhausted", "drained">>

mood_self_ref == <<"i am", "i'm", "i feel", "i'm feeling", "feeling", "today i", "right now i">>

cgm_direct == <<"glucose", "blood sugar", "cgm", "reading", "mg/dl", "sugar level", "diabetes", "diabetic">>

\* A variant whose first pattern does not know the unit mg.
CgmValuesWithoutUnit ==
    << <<OneOrMore(DIGITS), ZeroOrMore(WHITESPACE), Lit({"glucose", "sugar", "reading"})>>,
       <<Lit({"glucose"}), AnyOnLine, OneOrMore(DIGITS)>>,
       <<Lit({"sugar"}), AnyOnLine, OneOrMore(DIGITS)>>,
       <<Lit({"reading"}), AnyOnLine, OneOrMore(DIGITS)>> >>

cgm_values ==
    << <<OneOrMore(DIGITS), ZeroOrMore(WHITESPACE), Lit({"mg", "glucose", "sugar", "reading"})>>,
       <<Lit({"glucose"}), AnyOnLine, OneOrMore(DIGITS)>>,
       <<Lit({"sugar"}), AnyOnLine, OneOrMore(DIGITS)>>,
       <<Lit({"reading"}), AnyOnLine, OneOrMore(DIGITS)>> >>

cgm_actions == <<"check", "test", "measure", "monitor">>

food_past_tense == <<"ate", "had", "eaten", "consumed", "finished", "devoured">>

food_present_tense == <<"eating", "having", "consuming">>

food_meals == <<"breakfast", "lunch", "dinner", "snack", "meal", "brunch", "supper">>

food_items == <<"food", "pizza", "salad", "chicken", "rice", "bread", "fruit", "vegetables">>

food_context == <<"just", "recently", "earlier", "this morning", "for lunch", "for dinner">>

planning_direct == <<"meal plan", "plan meal", "plan a meal", "meal planning", "menu", "meal ideas", "suggest meals", "what to eat", "plan my meals">>

planning_verbs == <<"plan", "planning", "suggest", "recommend", "generate", "create">>

planning_questions == <<"what should i eat", "what can i eat", "meal suggestions", "food recommendations">>

planning_time_based == <<"tomorrow", "today", "this week", "next week", "meal prep">>

insights_direct == <<"trends", "insights", "show me", "view", "display", "analysis", "patterns", "summary", "report", "data", "statistics", "dashboard">>

insights_requests == <<"how am i doing", "my progress", "track my", "history", "overview", "my health", "health dashboard">>

calculate_mood_score(input_lower) ==
    2 * Hits(mood_direct, input_lower)
    + 2 * Hits(mood_positive, input_lower)
    + 2 * Hits(mood_negative, input_lower)
    + 3 * Hits(mood_self_ref, input_lower)
    + (IF Search(input_lower, <<Lit({"i"}), Opt("'"), Lit({"m"}), OneOrMore(WHITESPACE),
                                Lit({"stupid", "dumb", "worthless", "useless", "terrible", "awful", "pathetic"})>>)
       THEN 5 ELSE 0)
    + (IF Search(input_lower, <<Lit({"i"}), OneOrMore(WHITESPACE), Lit({"feel"}), OneOrMore(WHITESPACE), Lit({"like"})>>)
       THEN 4 ELSE 0)
    + (IF Search(input_lower, <<Lit({"i"}), Opt("'"), Lit({"m"}), OneOrMore(WHITESPACE),
                                Lit({"so", "really", "very", "extremely"}), OneOrMore(WHITESPACE), OneOrMore(WORDCHARS)>>)
       THEN 3 ELSE 0)

calculate_cgm_score(input_lower) ==
    2 * Hits(cgm_direct, input_lower) + Hits(cgm_actions, input_lower)

calculate_food_score(input_lower) ==
    LET has_logging_context == AnyOf(food_past_tense \o food_context, input_lower)
        has_planning_context == AnyOf(planning_verbs, input_lower)
    IN  3 * Hits(food_past_tense, input_lower)
        + 2 * Hits(food_present_tense, input_lower)
        + Hits(food_items, input_lower)
        + Hits(food_context, input_lower)
        + (IF ~has_planning_context /\ has_logging_context THEN 2 * Hits(food_meals, input_lower)
           ELSE IF ~has_planning_context THEN Hits(food_meals, input_lower)
           ELSE 0)

calculate_planning_score(input_lower) ==
    LET planning_verbs_present == AnyOf(planning_verbs, input_lower)
        meal_words_present == AnyOf(<<"meal", "menu", "food", "diet">>, input_lower)
    IN  4 * Hits(planning_direct, input_lower)
        + 2 * Hits(planning_questions, input_lower)
        + Hits(planning_time_based, input_lower)
        + (IF planning_verbs_present /\ meal_words_present THEN 5
           ELSE IF planning_verbs_present THEN 2
           ELSE 0)

calculate_insights_score(input_lower) ==
    2 * Hits(insights_direct, input_lower)
    + 2 * Hits(insights_requests, input_lower)
    + (IF AnyOf(<<"show", "view", "display", "get">>, input_lower) THEN 5 ELSE 0)

\* The labels in the insertion order of the scores dict.
IntentOrder == <<"mood_tracking", "cgm_monitoring", "food_logging", "meal_planning", "insights_request">>

\* The five scores, in the order of IntentOrder.
Scores(input_lower) ==
    << calculate_mood_score(input_lower), calculate_cgm_score(input_lower),
       calculate_food_score(input_lower), calculate_planning_score(input_lower),
       calculate_insights_score(input_lower) >>

\* A variant that takes the least score.
MinOf(scores) == CHOOSE m \in {scores[k] : k \in 1..Len(scores)} : \A k \in 1..Len(scores) : m <= scores[k]

\* max(scores.values())
MaxOf(scores) == CHOOSE m \in {scores[k] : k \in 1..Len(scores)} : \A k \in 1..Len(scores) : scores[k] <= m

\* A variant that takes the last key whose score is the maximum.
LastArgMax(scores) ==
    CHOOSE k \in 1..Len(scores) : scores[k] = MaxOf(scores) /\ \A j \in (k + 1)..Len(scores) : scores[j] < MaxOf(scores)

\* max(scores, key=scores.get): the first key, in insertion order, whose
\* score is the maximum.
FirstArgMax(scores) ==
    CHOOSE k \in 1..Len(scores) : scores[k] = MaxOf(scores) /\ \A j \in 1..(k - 1) : scores[j] < MaxOf(scores)

detect_primary_intent(user_input) ==
    LET input_lower == Strip(Lower(user_input))
        scores == Scores(input_lower)
    IN  IF \E p \in 1..Len(cgm_values) : Search(input_lower, cgm_values[p]) THEN "cgm_monitoring"
        ELSE IF MaxOf(scores) > 0 THEN IntentOrder[FirstArgMax(scores)]
        ELSE "general_question"

\* ------------------------------------------------------------------------
\* Lexical extractors of the turn dispatcher (HealthAgentSystem)
\* ------------------------------------------------------------------------

\* return text[len(prefix):].strip() for the first prefix the lower-cased
\* text starts with, else text.strip()
StripFirstPrefix(text, prefixes) ==
    LET low == Lower(text)
        hit == {k \in 1..Len(prefixes) : StartsWith(low, prefixes[k])}
    IN  IF hit = {} THEN Strip(text)
        ELSE Strip(SubSeq(text, Len(prefixes[Leftmost(hit)]) + 1, Len(text)))

extract_mood_from_input(text) ==
    StripFirstPrefix(text, <<"i feel", "i'm feeling", "feeling", "i am", "mood:", "my mood is">>)

extract_meal_description(text) ==
    StripFirstPrefix(text, <<"i ate", "i had", "just ate", "just had", "meal:", "food:",
                             "consumed", "eaten", "my meal was", "for lunch i had",
                             "for dinner i had", "for breakfast i had">>)

IsDigit(text, i) == i >= 1 /\ i <= Len(text) /\ InClass(Char(text, i), DIGITS)

\* The end of the longest run of digits that starts at position i
RunEnd(text, i) == CHOOSE j \in i..Len(text) :
                      /\ \A k \in i..j : IsDigit(text, k)
                      /\ ~IsDigit(text, j + 1)

RECURSIVE ParseInt(_)
ParseInt(numeral) ==
    IF Len(numeral) = 0 THEN 0
    ELSE 10 * ParseInt(SubSeq(numeral, 1, Len(numeral) - 1))
         + ((CHOOSE d \in 1..10 : Char(DIGITS, d) = Char(numeral, Len(numeral))) - 1)

\* Start positions of a match of  (\d+)\s*(?:mg/dl|mg|glucose|reading)
NumberWithUnit(text) ==
    {i \in 1..Len(text) :
        IsDigit(text, i) /\
        MatchAt(text, RunEnd(text, i) + 1,
                <<ZeroOrMore(WHITESPACE), Lit({"mg/dl", "mg", "glucose", "reading"})>>)}

\* Start positions of the number captured by  <word>.*?(\d+) : the first
\* digit after an occurrence of the word, on the same line.
NumberAfter(text, word) ==
    {i \in 1..Len(text) :
        IsDigit(text, i) /\
        \E w \in 1..(i - Len(word)) :
            /\ SubSeq(text, w, w + Len(word) - 1) = word
            /\ \A k \in (w + Len(word))..(i - 1) : Char(text, k) # "\n" /\ ~IsDigit(text, k)
            /\ \A v \in 1..(w - 1) :
                  ~(SubSeq(text, v, v + Len(word) - 1) = word
                    /\ \E d \in (v + Len(word))..Len(text) :
                          IsDigit(text, d) /\ \A k \in (v + Len(word))..(d - 1) : Char(text, k) # "\n")}

NoReading == -1

\* _extract_glucose_reading for texts whose numbers have no decimal part;
\* NoReading stands for None.
extract_glucose_reading(text) ==
    LET low == Lower(text)
        number(i) == ParseInt(SubSeq(low, i, RunEnd(low, i)))
        digits == {i \in 1..Len(low) : IsDigit(low, i)}
    IN  IF NumberWithUnit(low) # {} THEN number(Leftmost(NumberWithUnit(low)))
        ELSE IF NumberAfter(low, "glucose") # {} THEN number(Leftmost(NumberAfter(low, "glucose")))
        ELSE IF NumberAfter(low, "reading") # {} THEN number(Leftmost(NumberAfter(low, "reading")))
        ELSE IF NumberAfter(low, "sugar") # {} THEN number(Leftmost(NumberAfter(low, "sugar")))
        ELSE IF digits # {} THEN number(Leftmost(digits))
        ELSE NoReading

\* _extract_date_from_input for texts without a written date: the relative
\* day named in the text, or None.
extract_date_from_input(text) ==
    LET low == Lower(text)
    IN  IF Contains(low, "today") THEN "today"
        ELSE IF Contains(low, "tomorrow") THEN "tomorrow"
        ELSE IF Contains(low, "yesterday") THEN "yesterday"
        ELSE None

\* A variant that never takes the name-search branch.
BranchWithoutNameSearch(text) ==
    IF looks_like_user_id(text) THEN "user_id" ELSE "help"

\* The branch of _handle_authentication an input takes
authentication_branch(text) ==
    IF looks_like_user_id(text) THEN "user_id"
    ELSE IF looks_like_name_search(text) THEN "name_search"
    ELSE "help"

\* ------------------------------------------------------------------------
\* The inputs of the model and what the dispatcher extracts from them
\* ------------------------------------------------------------------------

\* Raw texts a turn can carry
Utterances ==
    {"  ", "1001", " 1002 ", "ab12cd34", "AB12CD34", "9999", "12345",
     "My name is Jane Doe", "My name is John Smith", "My name is Bob",
     "hello", "help", "logout",
     "I'm feeling really great today!", "My glucose reading is 120",
     "My glucose reading is 650", "check my glucose",
     "I ate grilled chicken with rice", "Generate a meal plan for tomorrow",
     "Show me my mood trends", "how am i doing"}

InsightTopics == {"mood", "glucose", "cgm", "nutrition", "food"}

\* Trend requests put to a session that has data, besides the utterances
TrendRequests == {"Show me my glucose trends", "show my cgm trends"}

\* Everything process_user_input and the methods it calls compute from the
\* text of a turn alone
Lex(raw_input) ==
    LET lexed(user_input, input_lower) ==
            [user_input |-> user_input,
             input_lower |-> input_lower,
             branch |-> authentication_branch(user_input),
             name |-> extract_name_from_input(user_input),
             intent |-> detect_primary_intent(user_input),
             mood_label |-> extract_mood_from_input(user_input),
             glucose_reading |-> extract_glucose_reading(user_input),
             meal_description |-> extract_meal_description(user_input),
             plan_date |-> extract_date_from_input(user_input),
             mentions |-> {word \in InsightTopics : Contains(input_lower, word)}]
        stripped(user_input) == lexed(user_input, Lower(user_input))
    IN  stripped(Strip(raw_input))

Lexed == [raw_input \in Utterances \cup TrendRequests |-> Lex(raw_input)]

\* The names extract_name_from_input gives for the inputs that take the
\* name-search branch, and the answers of the users table to them
NamesSearched == {"jane doe", "john smith", "bob", "feeling really great today!"}

UsersByName == [name \in NamesSearched |-> DbGetUserByName(Strip(name))]

\* ------------------------------------------------------------------------
\* The store (DatabaseManager): six tables of rows in insertion order.
\* Every row of the model lies inside the look-back windows of the readers.
\* ------------------------------------------------------------------------

EmptyStore ==
    [mood_tracking |-> <<>>, cgm_readings |-> <<>>, cgm_alerts |-> <<>>,
     food_intake |-> <<>>, meal_plans |-> <<>>, agent_interactions |-> <<>>]

Tables == {"mood_tracking", "cgm_readings", "cgm_alerts", "food_intake", "meal_plans", "agent_interactions"}

TotalRows(store) ==
    Len(store.mood_tracking) + Len(store.cgm_readings) + Len(store.cgm_alerts)
    + Len(store.food_intake) + Len(store.meal_plans) + Len(store.agent_interactions)

\* A variant that keeps the latest mood only.
StoreLatestMood(store, user_id, mood_label, mood_score) ==
    [store EXCEPT !.mood_tracking =
        <<[user_id |-> user_id, mood_label |-> mood_label, mood_score |-> mood_score]>>]

store_mood(store, user_id, mood_label, mood_score) ==
    [store EXCEPT !.mood_tracking =
        Append(@, [user_id |-> user_id, mood_label |-> mood_label, mood_score |-> mood_score])]

store_cgm_reading(store, user_id, reading) ==
    [store EXCEPT !.cgm_readings = Append(@, [user_id |-> user_id, reading |-> reading])]

store_cgm_alert(store, user_id, reading, alert_type) ==
    [store EXCEPT !.cgm_alerts =
        Append(@, [user_id |-> user_id, reading |-> reading, alert_type |-> alert_type])]

store_food_intake(store, user_id, meal_description, nutrients) ==
    [store EXCEPT !.food_intake =
        Append(@, [user_id |-> user_id, meal_description |-> meal_description, nutrients |-> nutrients])]

store_meal_plan(store, user_id, plan_date, meal_plan) ==
    [store EXCEPT !.meal_plans =
        Append(@, [user_id |-> user_id, plan_date |-> plan_date, meal_plan |-> meal_plan])]

\* A variant that keeps no record of interactions.
NoInteractionLog(store, user_id, source_agent, target_agent, data_type, data_summary) == store

log_agent_interaction(store, user_id, source_agent, target_agent, data_type, data_summary) ==
    [store EXCEPT !.agent_interactions =
        Append(@, [user_id |-> user_id, source_agent |-> source_agent,
                   target_agent |-> target_agent, data_type |-> data_type,
                   data_summary |-> data_summary])]

\* SELECT ... WHERE user_id = ?  (a NULL parameter selects no row)
RowsOf(rows, user_id) ==
    IF user_id = None THEN <<>> ELSE SelectSeq(rows, LAMBDA r : r.user_id = user_id)

\* get_recent_mood_data / get_cgm_trends / get_recent_nutrition_data:
\* the number of rows of the user.
EntriesCount(store, table, user_id) == Len(RowsOf(store[table], user_id))

\* ------------------------------------------------------------------------
\* Mood handler (MoodTrackerAgent)
\* ------------------------------------------------------------------------

\* self.mood_scores
MoodScoreKeys ==
    {"terrible", "awful", "horrible", "depressed", "miserable", "sad", "down", "low",
     "tired", "bad", "okay", "neutral", "fine", "good", "decent", "alright",
     "happy", "positive", "cheerful", "great", "wonderful", "fantastic",
     "excited", "amazing", "thrilled", "ecstatic", "overjoyed", "blissful"}

\* A variant whose scale starts at 0.
MoodScoresFromZero(label) ==
    CASE label \in {"terrible", "awful", "horrible"} -> 0
      [] label \in {"depressed", "miserable"} -> 1
      [] label \in {"sad", "down", "low"} -> 2
      [] label \in {"tired", "bad"} -> 3
      [] label \in {"okay", "neutral", "fine"} -> 4
      [] label \in {"good", "decent", "alright"} -> 5
      [] label \in {"happy", "positive", "cheerful"} -> 6
      [] label \in {"great", "wonderful", "fantastic"} -> 7
      [] label \in {"excited", "amazing", "thrilled"} -> 8
      [] label \in {"ecstatic", "overjoyed", "blissful"} -> 9

mood_scores(label) ==
    CASE label \in {"terrible", "awful", "horrible"} -> 1
      [] label \in {"depressed", "miserable"} -> 2
      [] label \in {"sad", "down", "low"} -> 3
      [] label \in {"tired", "bad"} -> 4
      [] label \in {"okay", "neutral", "fine"} -> 5
      [] label \in {"good", "decent", "alright"} -> 6
      [] label \in {"happy", "positive", "cheerful"} -> 7
      [] label \in {"great", "wonderful", "fantastic"} -> 8
      [] label \in {"excited", "amazing", "thrilled"} -> 9
      [] label \in {"ecstatic", "overjoyed", "blissful"} -> 10

extract_simple_mood_label(mood_input) ==
    LET mood_lower == Strip(Lower(mood_input))
        has(words) == AnyOf(words, mood_lower)
        pos_count == Hits(<<"love", "like", "enjoy", "nice", "pleasant", "bright">>, mood_lower)
        neg_count == Hits(<<"hate", "dislike", "stress", "worry", "angry", "frustrated">>, mood_lower)
    IN  IF has(<<"terrible", "awful", "horrible", "worst">>) THEN "terrible"
        ELSE IF has(<<"very sad", "depressed", "miserable", "devastated">>) THEN "depressed"
        ELSE IF has(<<"sad", "down", "low", "blue", "upset">>) THEN "sad"
        ELSE IF has(<<"tired", "sluggish", "drained", "exhausted", "weary">>) THEN "tired"
        ELSE IF has(<<"bad", "not good", "poor", "rough">>) THEN "bad"
        ELSE IF has(<<"ecstatic", "overjoyed", "blissful", "euphoric", "elated">>) THEN "ecstatic"
        ELSE IF has(<<"excited", "amazing", "thrilled", "energetic", "pumped">>) THEN "excited"
        ELSE IF has(<<"great", "wonderful", "fantastic", "awesome", "excellent">>) THEN "great"
        ELSE IF has(<<"happy", "positive", "cheerful", "content", "joyful">>) THEN "happy"
        ELSE IF has(<<"good", "decent", "alright", "better", "well">>) THEN "good"
        ELSE IF has(<<"okay", "fine", "meh", "so-so">>) THEN "okay"
        ELSE IF pos_count > neg_count THEN "good"
        ELSE IF neg_count > pos_count THEN "down"
        ELSE "neutral"

\* A variant that gives every label the default score.
DefaultMoodScore(mood_label) == 5

\* convert_mood_to_score(...)["mood_score"]
convert_mood_to_score(mood_label) ==
    LET mood_lower == Strip(Lower(mood_label))
        has(words) == AnyOf(words, mood_lower)
    IN  IF mood_lower \in MoodScoreKeys THEN mood_scores(mood_lower)
        ELSE IF has(<<"terrible", "awful", "horrible", "worst">>) THEN 1
        ELSE IF has(<<"very sad", "depressed", "miserable", "devastated">>) THEN 2
        ELSE IF has(<<"sad", "down", "low", "blue", "upset">>) THEN 3
        ELSE IF has(<<"tired", "sluggish", "drained", "exhausted", "weary">>) THEN 4
        ELSE IF has(<<"good", "decent", "alright", "better">>) THEN 6
        ELSE IF has(<<"happy", "positive", "cheerful", "content">>) THEN 7
        ELSE IF has(<<"great", "wonderful", "fantastic", "awesome">>) THEN 8
        ELSE IF has(<<"excited", "amazing", "thrilled", "energetic">>) THEN 9
        ELSE IF has(<<"ecstatic", "overjoyed", "blissful", "euphoric">>) THEN 10
        ELSE 5

\* Texts passed to log_mood in the model: what the dispatcher extracts from
\* its inputs, and descriptions given to the tool directly
MoodInputs ==
    {"really great today!", "a bit tired", "Ecstatic",
     "the worst day", "so miserable", "feeling blue", "drained", "not bad", "a rough week",
     "elated", "pumped", "excellent", "joyful and content", "doing well", "much better",
     "meh", "fine i guess", "good but sad", "great and excited", "happy, even thrilled",
     "i love this nice day", "i hate the stress", "i like it but i worry", "xyz", ""}

\* extract_simple_mood_label, then convert_mood_to_score on the label
Scored ==
    [mood_input \in MoodInputs |->
        LET scored(label) == [mood_label |-> label, mood_score |-> convert_mood_to_score(label)]
        IN  scored(extract_simple_mood_label(mood_input))]

\* The result of a handler tool: what it returns, the store after it, and
\* the tables it queried for its user.
Outcome(result, store, reads) == [result |-> result, store |-> store, reads |-> reads]

LoginError(message) == [status |-> "error", message |-> message]

\* MoodTrackerAgent.log_mood on a handler bound to user_id
log_mood(user_id, mood_input, store) ==
    IF user_id = None
    THEN Outcome(LoginError("Please log in first before logging your mood."), store, {})
    ELSE LET logged(label, score) ==
                 Outcome([status |-> "success", message |-> "Mood logged", mood_label |-> label,
                          mood_score |-> score],
                         log_agent_interaction(store_mood(store, user_id, label, score), user_id,
                                               "MoodTrackerAgent", "Database", "mood_logging",
                                               <<label, score>>),
                         {"mood_tracking"})
             scored(row) == logged(row.mood_label, row.mood_score)
         IN  scored(Scored[mood_input])

\* MoodTrackerAgent.get_mood_trends: the result has the keys status,
\* entries_count, average_mood, trend and recent_entries only.
get_mood_trends(user_id, store) ==
    IF user_id = None
    THEN Outcome(LoginError("Please log in first to view mood trends."), store, {})
    ELSE LET n == EntriesCount(store, "mood_tracking", user_id)
         IN  IF n = 0
             THEN Outcome([status |-> "success", message |-> "No mood entries found",
                           entries_count |-> 0],
                          store, {"mood_tracking"})
             ELSE Outcome([status |-> "success", message |-> "", entries_count |-> n],
                          log_agent_interaction(store, user_id, "MoodTrackerAgent", "User",
                                                "trend_analysis", <<n, 30>>),
                          {"mood_tracking"})

\* MoodTrackerAgent.suggest_mood_boosters: no log-in guard; without a score
\* it queries mood_tracking for the handler's user, whoever that is.
suggest_mood_boosters(user_id, current_mood_score, store) ==
    LET rows == RowsOf(store.mood_tracking, user_id)
        score == IF current_mood_score # 0 THEN current_mood_score
                 ELSE IF rows # <<>> THEN rows[Len(rows)].mood_score
                 ELSE 5
    IN  Outcome([status |-> "success", message |-> "Here are some mood-boosting activities",
                 current_mood_score |-> score],
                store,
                IF current_mood_score # 0 THEN {} ELSE {"mood_tracking"})

\* ------------------------------------------------------------------------
\* Glucose handler (CGMAgent).  Readings are whole numbers of mg/dL.
\* ------------------------------------------------------------------------

Range(lo, hi, target_min, target_max) ==
    [min |-> lo, max |-> hi, target_min |-> target_min, target_max |-> target_max]

\* A variant whose entry for None is as wide as 70-180.
CgmRangesWideNone(key) ==
    CASE key = "Type 1 Diabetes" -> Range(80, 250, 80, 180)
      [] key = "Type 2 Diabetes" -> Range(90, 220, 90, 180)
      [] key = "Pre-diabetes" -> Range(85, 180, 85, 140)
      [] key = "None" -> Range(70, 180, 70, 180)
      [] OTHER -> Range(70, 180, 80, 140)

\* self.cgm_ranges
cgm_ranges(key) ==
    CASE key = "Type 1 Diabetes" -> Range(80, 250, 80, 180)
      [] key = "Type 2 Diabetes" -> Range(90, 220, 90, 180)
      [] key = "Pre-diabetes" -> Range(85, 180, 85, 140)
      [] key = "None" -> Range(70, 140, 70, 140)
      [] OTHER -> Range(70, 180, 80, 140)

\* A variant that looks for Type 2 Diabetes first.
RangeKeyType2First(conditions) ==
    IF "Type 2 Diabetes" \in conditions THEN "Type 2 Diabetes"
    ELSE IF "Type 1 Diabetes" \in conditions THEN "Type 1 Diabetes"
    ELSE IF "Pre-diabetes" \in conditions THEN "Pre-diabetes"
    ELSE IF "None" \in conditions \/ conditions = {} THEN "None"
    ELSE "default"

\* The key of cgm_ranges chosen for a set of conditions
RangeKey(conditions) ==
    IF "Type 1 Diabetes" \in conditions THEN "Type 1 Diabetes"
    ELSE IF "Type 2 Diabetes" \in conditions THEN "Type 2 Diabetes"
    ELSE IF "Pre-diabetes" \in conditions THEN "Pre-diabetes"
    ELSE IF "None" \in conditions \/ conditions = {} THEN "None"
    ELSE "default"

\* get_user_cgm_range once the store has answered with user_data
range_of_profile(user_data) ==
    IF user_data = NoUser THEN cgm_ranges("default")
    ELSE cgm_ranges(RangeKey(user_data.medical_conditions))

get_user_cgm_range(user_id) == range_of_profile(DbValidateUserId(user_id))

\* A variant for which every reading outside the target range is critical.
AlertTypeCriticalOutsideTarget(glucose_reading, user_ranges) ==
    IF glucose_reading < user_ranges.target_min THEN "critical_low"
    ELSE IF glucose_reading > user_ranges.target_max THEN "critical_high"
    ELSE "normal"

\* The alert level process_glucose_reading gives an accepted reading
AlertType(glucose_reading, user_ranges) ==
    IF glucose_reading < user_ranges.target_min
    THEN IF glucose_reading < 70 THEN "critical_low" ELSE "low"
    ELSE IF glucose_reading > user_ranges.target_max
    THEN IF glucose_reading > 250 THEN "critical_high" ELSE "high"
    ELSE "normal"

\* A variant that accepts every reading.
AnyReadingAccepted(glucose_reading) == TRUE

\* The bounds test of process_glucose_reading
reading_accepted(glucose_reading) == ~(glucose_reading < 20 \/ glucose_reading > 600)

\* CGMAgent.process_glucose_reading on a handler bound to user_id
process_glucose_reading(user_id, glucose_reading, store) ==
    IF user_id = None
    THEN Outcome(LoginError("Please log in first before recording glucose readings."), store, {})
    ELSE IF ~reading_accepted(glucose_reading)
    THEN Outcome([status |-> "error", message |-> "Invalid glucose reading"], store, {})
    ELSE LET alerted(user_ranges, alert_type, logged) ==
                 Outcome([status |-> "success", reading |-> glucose_reading,
                          alert_type |-> alert_type, message |-> alert_type,
                          target_range |-> <<user_ranges.target_min, user_ranges.target_max>>],
                         IF alert_type # "normal"
                         THEN store_cgm_alert(logged, user_id, glucose_reading, alert_type)
                         ELSE logged,
                         {"users", "cgm_readings"})
             stored(user_ranges, alert_type) ==
                 alerted(user_ranges, alert_type,
                         log_agent_interaction(store_cgm_reading(store, user_id, glucose_reading),
                                               user_id, "CGMAgent", "Database", "glucose_logging",
                                               <<glucose_reading, alert_type>>))
             ranged(user_ranges) == stored(user_ranges, AlertType(glucose_reading, user_ranges))
         IN  ranged(get_user_cgm_range(user_id))

\* CGMAgent.get_glucose_trends: the result has the keys status,
\* readings_count, average_glucose, trend, time_in_range, target_range and
\* recent_readings only.
get_glucose_trends(user_id, store) ==
    IF user_id = None
    THEN Outcome(LoginError("Please log in first to view glucose trends."), store, {})
    ELSE LET n == EntriesCount(store, "cgm_readings", user_id)
         IN  IF n = 0
             THEN Outcome([status |-> "success", message |-> "No glucose readings found",
                           readings_count |-> 0],
                          store, {"cgm_readings"})
             ELSE Outcome([status |-> "success", message |-> "", readings_count |-> n],
                          log_agent_interaction(store, user_id, "CGMAgent", "User",
                                                "trend_analysis", <<n, 7>>),
                          {"users", "cgm_readings"})

\* ------------------------------------------------------------------------
\* Generative backend (GeminiClient): what a completion can be
\* ------------------------------------------------------------------------

\* The shapes of a reply to the nutrition prompt: a JSON object with the
\* four numeric fields, one whose protein is not a number, one lacking a
\* field, text without braces, braces around invalid JSON, and a backend
\* exception (generate_response turns it into an error sentence).
NutritionReplies ==
    {"json", "json_in_prose", "json_text_field", "json_missing_field", "no_json",
     "open_brace_only", "braces_reversed", "invalid_json", "empty", "raises"}

\* The content of the reply of each shape (that of "raises" is the message
\* of the exception)
NutritionContent(llm) ==
    CASE llm = "json" -> "{\"carbs\": 45, \"protein\": 35, \"fat\": 12, \"calories\": 420}\n"
      [] llm = "json_in_prose" ->
             "Here is my estimate: {\"carbs\": 45, \"protein\": 35, \"fat\": 12, \"calories\": 420} Enjoy!"
      [] llm = "json_text_field" ->
             "{\"carbs\": 45, \"protein\": \"high\", \"fat\": 12, \"calories\": 420}"
      [] llm = "json_missing_field" -> "{\"carbs\": 45, \"protein\": 35, \"fat\": 12}"
      [] llm = "no_json" -> "I cannot analyse this meal."
      [] llm = "open_brace_only" -> "{\"carbs\": 45, \"protein\": 35,"
      [] llm = "braces_reversed" -> "} carbs 45 {"
      [] llm = "invalid_json" -> "{carbs: 45, protein: 35, fat: 12, calories: 420}"
      [] llm = "empty" -> ""
      [] llm = "raises" -> "429 quota exceeded {\"error\": \"busy\"}"

\* GeminiClient.generate_response
generate_response(llm) ==
    IF llm = "raises" THEN "Error generating response: " \o NutritionContent(llm)
    ELSE IF NutritionContent(llm) # "" THEN Strip(NutritionContent(llm))
    ELSE "Unable to generate response. Please try again."

\* str.find and str.rfind of one character, counting positions from 1 (0
\* when the character does not occur)
Find(text, c) ==
    IF \E i \in 1..Len(text) : Char(text, i) = c
    THEN CHOOSE i \in 1..Len(text) : Char(text, i) = c /\ \A j \in 1..(i - 1) : Char(text, j) # c
    ELSE 0

RFind(text, c) ==
    IF \E i \in 1..Len(text) : Char(text, i) = c
    THEN CHOOSE i \in 1..Len(text) : Char(text, i) = c /\ \A j \in (i + 1)..Len(text) : Char(text, j) # c
    ELSE 0

\* The pieces of a text between the commas in it
RECURSIVE SplitOnCommas(_)
SplitOnCommas(text) ==
    IF Find(text, ",") = 0 THEN <<text>>
    ELSE <<SubSeq(text, 1, Find(text, ",") - 1)>>
         \o SplitOnCommas(SubSeq(text, Find(text, ",") + 1, Len(text)))

\* A JSON string without escapes: quotes around text that has no quote
IsJsonString(token) ==
    /\ Len(token) >= 2
    /\ Char(token, 1) = "\"" /\ Char(token, Len(token)) = "\""
    /\ \A i \in 2..(Len(token) - 1) : Char(token, i) # "\""

IsJsonNumber(token) == Len(token) >= 1 /\ AllIn(token, DIGITS)

\* One "key": value member of a JSON object, the value a whole number or a
\* string
JsonMember(member) ==
    LET split(colon) ==
            [key |-> Strip(SubSeq(member, 1, colon - 1)),
             value |-> Strip(SubSeq(member, colon + 1, Len(member)))]
        parsed(m) ==
            [valid |-> /\ IsJsonString(m.key)
                       /\ IsJsonNumber(m.value) \/ IsJsonString(m.value),
             key |-> IF Len(m.key) >= 2 THEN SubSeq(m.key, 2, Len(m.key) - 1) ELSE "",
             number |-> IsJsonNumber(m.value),
             value |-> IF IsJsonNumber(m.value) THEN ParseInt(m.value) ELSE 0]
    IN  IF Find(member, ":") = 0
        THEN [valid |-> FALSE, key |-> "", number |-> FALSE, value |-> 0]
        ELSE parsed(split(Find(member, ":")))

\* json.loads of a text, for flat objects whose values are whole numbers or
\* strings that hold no comma, colon or escape: the members of the object,
\* or decoded FALSE for JSONDecodeError.  (A later member replaces an
\* earlier one of the same key.)
json_loads(json_str) ==
    LET members(body) ==
            IF Strip(body) = "" THEN <<>>
            ELSE [k \in 1..Len(SplitOnCommas(body)) |-> JsonMember(SplitOnCommas(body)[k])]
        object(ms) ==
            [decoded |-> \A k \in 1..Len(ms) : ms[k].valid,
             keys |-> {ms[k].key : k \in 1..Len(ms)},
             members |-> ms]
        stripped(text) ==
            IF Len(text) >= 2 /\ Char(text, 1) = "{" /\ Char(text, Len(text)) = "}"
            THEN object(members(SubSeq(text, 2, Len(text) - 1)))
            ELSE [decoded |-> FALSE, keys |-> {}, members |-> <<>>]
    IN  stripped(Strip(json_str))

\* parsed[field] after the clean-up loop of analyze_meal_description: a
\* value that is not a number becomes 0
CleanField(parsed, field) ==
    LET last == CHOOSE k \in 1..Len(parsed.members) :
                    /\ parsed.members[k].key = field
                    /\ \A j \in (k + 1)..Len(parsed.members) : parsed.members[j].key # field
    IN  IF parsed.members[last].number THEN parsed.members[last].value ELSE 0

Nutrients(carbs, protein, fat, calories) ==
    [carbs |-> carbs, protein |-> protein, fat |-> fat, calories |-> calories]

fallback_nutrition == Nutrients(30, 15, 10, 250)

required_fields == <<"carbs", "protein", "fat", "calories">>

\* A variant that takes an object lacking a field as it is, the clean-up
\* loop filling the field with 0.
AcceptMissingFields(parsed) == TRUE

\* all(field in parsed for field in required_fields)
has_required_fields(parsed) == \A k \in 1..Len(required_fields) : required_fields[k] \in parsed.keys

\* categorize_food_nutrients on the reply of the backend, followed by the
\* clean-up loop of analyze_meal_description
categorize_food_nutrients(llm) ==
    LET field(parsed, name) == IF name \in parsed.keys THEN CleanField(parsed, name) ELSE 0
        checked(parsed) ==
            IF ~parsed.decoded THEN fallback_nutrition
            ELSE IF has_required_fields(parsed)
            THEN Nutrients(field(parsed, "carbs"), field(parsed, "protein"),
                           field(parsed, "fat"), field(parsed, "calories"))
            ELSE fallback_nutrition
        found(response, start, end) ==
            IF start # 0 /\ end # 0
            THEN checked(json_loads(SubSeq(response, start, end)))
            ELSE fallback_nutrition
        analysed(response) == found(response, Find(response, "{"), RFind(response, "}"))
    IN  analysed(generate_response(llm))

\* The nutrients analyze_meal_description obtains for each reply
NutrientsFor == [llm \in NutritionReplies |-> categorize_food_nutrients(llm)]

\* The shapes of a reply to the meal-plan prompt: a usable JSON plan, a
\* JSON plan with a field the store cannot bind, and anything that makes
\* the client substitute its fallback plan.
PlanReplies == {"json", "json_unstorable", "fallback"}

\* ------------------------------------------------------------------------
\* Food handler (FoodIntakeAgent)
\* ------------------------------------------------------------------------

\* FoodIntakeAgent.log_meal on a handler bound to user_id
log_meal(user_id, meal_description, llm, store) ==
    IF user_id = None
    THEN Outcome(LoginError("Please log in first before logging meals."), store, {})
    ELSE IF Strip(meal_description) = ""
    THEN Outcome([status |-> "error", message |-> "Please provide a meal description to analyze."],
                 store, {})
    ELSE LET logged(nutrients) ==
                 Outcome([status |-> "success", message |-> "Meal logged successfully!",
                          nutrients |-> nutrients, meal_description |-> meal_description],
                         log_agent_interaction(
                             store_food_intake(store, user_id, meal_description, nutrients),
                             user_id, "FoodIntakeAgent", "Database", "meal_logging",
                             <<meal_description, nutrients.calories>>),
                         {"users", "food_intake"})
         IN  logged(NutrientsFor[llm])

\* FoodIntakeAgent.get_nutrition_insights
get_nutrition_insights(user_id, store) ==
    IF user_id = None
    THEN Outcome(LoginError("Please log in first to view nutrition insights."), store, {})
    ELSE LET n == EntriesCount(store, "food_intake", user_id)
         IN  IF n = 0
             THEN Outcome([status |-> "success", message |-> "No meal data found",
                           days_analyzed |-> 0],
                          store, {"food_intake"})
             ELSE Outcome([status |-> "success", message |-> "", days_analyzed |-> 7],
                          log_agent_interaction(store, user_id, "FoodIntakeAgent", "User",
                                                "nutrition_analysis", <<n, 7>>),
                          {"food_intake"})

\* ------------------------------------------------------------------------
\* Meal-plan handler (MealPlannerAgent)
\* ------------------------------------------------------------------------

Today == "today"

\* DatabaseManager.get_user_context: the profile merged with the recent
\* aggregates, or NoUser when the id is not in the users table.
get_user_context(user_id) == DbValidateUserId(user_id)

ContextTables == {"users", "mood_tracking", "cgm_readings", "food_intake"}

\* MealPlannerAgent.generate_meal_plan on a handler bound to user_id
generate_meal_plan(user_id, plan_date, llm, store) ==
    IF user_id = None
    THEN Outcome(LoginError("Please log in first to generate a meal plan."), store, {})
    ELSE LET date == IF plan_date = None THEN Today ELSE plan_date
             planned(user_context, logged) ==
                 IF llm = "json_unstorable"
                 THEN Outcome([status |-> "error", message |-> "Error generating meal plan"],
                              logged, ContextTables)
                 ELSE Outcome([status |-> "success", message |-> "Personalized Meal Plan",
                               plan_date |-> date],
                              store_meal_plan(logged, user_id, date,
                                              IF llm = "json" THEN "generated"
                                              ELSE IF Contains(Lower(user_context.dietary_category),
                                                               "vegan")
                                              THEN "fallback_vegan" ELSE "fallback_standard"),
                              ContextTables)
             informed(user_context) ==
                 IF user_context = NoUser
                 THEN Outcome([status |-> "error",
                               message |-> "Unable to retrieve user information for meal planning."],
                              store, ContextTables)
                 ELSE planned(user_context,
                              log_agent_interaction(store, user_id, "MealPlannerAgent",
                                                    "UserContext", "meal_planning",
                                                    <<date, user_context.dietary_category>>))
         IN  informed(get_user_context(user_id))

\* ------------------------------------------------------------------------
\* The session object (HealthAgentSystem) and its replies
\* ------------------------------------------------------------------------

\* A handler reference of the session: None, or a handler object bound at
\* construction to a user id.
NullRef == [object |-> FALSE, authenticated_user_id |-> None]

Handler(user_id) == [object |-> TRUE, authenticated_user_id |-> user_id]

HandlerFields == <<"cgm_agent", "mood_tracker_agent", "food_intake_agent", "meal_planner_agent">>

\* HealthAgentSystem.__init__ (current_user_location does not exist yet;
\* None stands for the missing attribute)
NewHealthAgentSystem ==
    [authenticated_user_id |-> None, current_user_name |-> None, current_user_location |-> None,
     greeting_agent |-> [current_user |-> NoUser],
     interrupt_agent |-> [authenticated_user_id |-> None, current_user_name |-> None],
     cgm_agent |-> NullRef, mood_tracker_agent |-> NullRef,
     food_intake_agent |-> NullRef, meal_planner_agent |-> NullRef,
     system_state |-> "unauthenticated"]

\* The dict a turn returns.  response is the leading sentence of the text,
\* listed the profiles whose ids the text spells out; keys the dict lacks
\* hold None or FALSE.
Reply(response, agent_used, state) ==
    [response |-> response, agent_used |-> agent_used, system_state |-> state,
     listed |-> <<>>, suggested_user_id |-> None,
     user_authenticated |-> FALSE, user_logged_out |-> FALSE,
     data_logged |-> None, status |-> None, raised |-> FALSE]

\* An exception leaving the operation instead of a reply
Raised(exception) == [Reply(exception, None, None) EXCEPT !.raised = TRUE]

\* The handler tool a turn invoked, the user its handler is bound to, and
\* what came back
NoCall ==
    [tool |-> None, user_id |-> None, status |-> None, message |-> None, reads |-> {},
     target_range |-> <<0, 0>>]

\* (target_range is a key of the result of a processed glucose reading only)
Called(tool, handler, out) ==
    [tool |-> tool, user_id |-> handler.authenticated_user_id,
     status |-> out.result.status, message |-> out.result.message, reads |-> out.reads,
     target_range |-> IF tool = "process_glucose_reading" /\ out.result.status = "success"
                      THEN out.result.target_range
                      ELSE <<0, 0>>]

\* What one operation did: the session and the store after it, its reply,
\* the branch it took, the handler tool it invoked, and the ids for which
\* the store returned a profile to the authentication resolver.
Step(hs, store, reply, branch, handler_call) ==
    [hs |-> hs, store |-> store, reply |-> reply, branch |-> branch, handler_call |-> handler_call,
     validated |-> {}]

\* InterruptAgent.set_authenticated_user
set_authenticated_user(agent, user_id) ==
    LET named(user_data) ==
            [authenticated_user_id |-> user_id,
             current_user_name |-> IF user_data # NoUser THEN user_data.name
                                   ELSE agent.current_user_name]
    IN  named(DbValidateUserId(user_id))

\* _initialize_authenticated_agents: the four factories in order, then the
\* interrupt agent; a failing factory (fault names its field, None means
\* that none fails) raises and leaves the rest undone.
initialize_authenticated_agents(hs, fault) ==
    IF hs.authenticated_user_id = None THEN [hs |-> hs, raised |-> FALSE]
    ELSE LET user_id == hs.authenticated_user_id
             failing == {k \in 1..Len(HandlerFields) : HandlerFields[k] = fault}
             last == IF failing = {} THEN Len(HandlerFields) ELSE Leftmost(failing) - 1
             ref(k, old) == IF k <= last THEN Handler(user_id) ELSE old
             created == [hs EXCEPT !.cgm_agent = ref(1, @), !.mood_tracker_agent = ref(2, @),
                                   !.food_intake_agent = ref(3, @), !.meal_planner_agent = ref(4, @)]
         IN  IF failing # {} THEN [hs |-> created, raised |-> TRUE]
             ELSE [hs |-> [created EXCEPT !.interrupt_agent = set_authenticated_user(@, user_id)],
                   raised |-> FALSE]

\* A variant that reports every id as valid.
ValidateAnyUserId(user_id) ==
    [status |-> "success", user_data |-> DbValidateUserId(Strip(user_id))]

\* GreetingAgent.validate_user_id (the caller stores user_data in
\* current_user on success)
validate_user_id(user_id) ==
    LET found(user_data) ==
            [status |-> IF user_data # NoUser THEN "success" ELSE "error", user_data |-> user_data]
    IN  found(DbValidateUserId(Strip(user_id)))

\* GreetingAgent.search_users_by_name
search_users_by_name(name) ==
    LET found(users) == [status |-> IF users # <<>> THEN "success" ELSE "error", users |-> users]
    IN  found(UsersByName[name])

\* A variant that authenticates on a single match.
SingleMatchAuthenticates(hs, user) ==
    [hs EXCEPT !.authenticated_user_id = user.user_id, !.current_user_name = user.name,
               !.system_state = "authenticated"]

\* The session after a name search with a single match: unchanged
after_single_match(hs, user) == hs

\* A variant that enters a third state.
EnterActive(hs, user_input, user_data) ==
    [hs EXCEPT !.authenticated_user_id = user_input,
               !.current_user_name = user_data.name,
               !.current_user_location = user_data.city,
               !.system_state = "active"]

\* The assignments of _handle_authentication on a validated id
authenticated_as(hs, user_input, user_data) ==
    [hs EXCEPT !.authenticated_user_id = user_input,
               !.current_user_name = user_data.name,
               !.current_user_location = user_data.city,
               !.system_state = "authenticated"]

\* A variant whose dict lacks the id.
ConfirmWithoutId(user, state) == Reply("Found a match!", "GreetingAgent", state)

\* The reply to a name search with a single match
confirm_reply(user, state) ==
    [Reply("Found a match!", "GreetingAgent", state) EXCEPT !.suggested_user_id = user.user_id]

\* The reply to a name search with several matches
multiple_reply(users, state) ==
    [Reply("Found matches", "GreetingAgent", state) EXCEPT !.listed = users]

\* A fault of the environment during one operation: the store raising
\* sqlite3.OperationalError on the first statement executed.  (The other
\* faults name the handler factory that fails.)
StoreDown == "store"

\* HealthAgentSystem._handle_authentication: neither it nor the methods it
\* calls catch an exception of the store.
handle_authentication(hs, store, turn, fault) ==
    LET branch == turn.branch
        user_input == turn.user_input
        welcomed(init, profile) ==
            [Step(init.hs, store,
                  IF init.raised THEN Raised("factory error")
                  ELSE [Reply("Welcome back", "GreetingAgent", init.hs.system_state)
                           EXCEPT !.user_authenticated = TRUE],
                  branch, NoCall)
                EXCEPT !.validated = IF profile # NoUser THEN {user_input} ELSE {}]
        greeted(user_data) ==
            [hs EXCEPT !.greeting_agent.current_user = IF user_data # NoUser THEN user_data ELSE @]
        identified(result) ==
            IF result.status = "success"
            THEN welcomed(initialize_authenticated_agents(
                              authenticated_as(greeted(result.user_data), user_input,
                                               result.user_data),
                              fault),
                          DbValidateUserId(Strip(user_input)))
            ELSE Step(hs, store, Reply("Invalid user ID", "GreetingAgent", hs.system_state),
                      branch, NoCall)
        confirmed(after, user) ==
            Step(after, store, confirm_reply(user, after.system_state), branch, NoCall)
        searched(result) ==
            IF result.status # "success"
            THEN Step(hs, store, Reply("No users found", "GreetingAgent", hs.system_state),
                      branch, NoCall)
            ELSE IF Len(result.users) = 1
            THEN confirmed(after_single_match(hs, result.users[1]), result.users[1])
            ELSE Step(hs, store, multiple_reply(result.users, hs.system_state), branch, NoCall)
    IN  IF fault = StoreDown /\ branch \in {"user_id", "name_search"}
        THEN Step(hs, store, Raised("OperationalError"), branch, NoCall)
        ELSE IF branch = "user_id" THEN identified(validate_user_id(user_input))
        ELSE IF branch = "name_search" THEN searched(search_users_by_name(turn.name))
        ELSE Step(hs, store, Reply("Welcome to your Personal Health Assistant!", "GreetingAgent",
                                   hs.system_state),
                  branch, NoCall)

\* A variant that leaves the four handler references in place.
ClearedButHandlers(hs) ==
    [hs EXCEPT !.authenticated_user_id = None, !.current_user_name = None,
               !.system_state = "unauthenticated"]

\* The assignments of _handle_logout
cleared(hs) ==
    [hs EXCEPT !.authenticated_user_id = None, !.current_user_name = None,
               !.system_state = "unauthenticated",
               !.cgm_agent = NullRef, !.mood_tracker_agent = NullRef,
               !.food_intake_agent = NullRef, !.meal_planner_agent = NullRef]

\* HealthAgentSystem._handle_logout
handle_logout(hs, store) ==
    LET after == cleared(hs)
    IN  Step(after, store,
             [Reply("Goodbye", "GreetingAgent", after.system_state) EXCEPT !.user_logged_out = TRUE],
             "logout", NoCall)

\* ------------------------------------------------------------------------
\* Authenticated turns (HealthAgentSystem._route_authenticated_request)
\* ------------------------------------------------------------------------

\* The outcomes of the generative backend during one operation
Backend(nutrition, plan) == [nutrition |-> nutrition, plan |-> plan]

\* DatabaseManager.get_health_summary: None exactly when the id has no
\* profile
has_health_summary(user_id) == get_user_context(user_id) # NoUser

\* The reply of a handler turn: result["message"] under the handler's name
HandlerReply(out, agent_used, state, data_logged) ==
    [Reply(out.result.message, agent_used, state)
        EXCEPT !.data_logged = data_logged, !.status = out.result.status]

\* Calling a tool through a reference that is None raises AttributeError
NoneHasNoAttribute(hs, store, branch) ==
    Step(hs, store, Raised("AttributeError"), branch, NoCall)

\* _handle_mood_tracking
handle_mood_tracking(hs, store, turn) ==
    LET replied(out) ==
            Step(hs, out.store, HandlerReply(out, "MoodTrackerAgent", hs.system_state, "mood"),
                 "mood_tracking", Called("log_mood", hs.mood_tracker_agent, out))
        requested(logged) ==
            IF ~hs.mood_tracker_agent.object THEN NoneHasNoAttribute(hs, logged, "mood_tracking")
            ELSE replied(log_mood(hs.mood_tracker_agent.authenticated_user_id, turn.mood_label,
                                  logged))
    IN  requested(log_agent_interaction(store, hs.authenticated_user_id, "MainSystem",
                                        "MoodTrackerAgent", "mood_logging_request",
                                        turn.mood_label))

\* A variant that takes every extraction for a reading.
NeverMissing(glucose_reading) == FALSE

\* glucose_reading is None
reading_missing(glucose_reading) == glucose_reading = NoReading

\* _handle_cgm_monitoring
handle_cgm_monitoring(hs, store, turn) ==
    LET replied(out) ==
            Step(hs, out.store, HandlerReply(out, "CGMAgent", hs.system_state, "glucose"),
                 "cgm_monitoring", Called("process_glucose_reading", hs.cgm_agent, out))
        requested(logged) ==
            IF ~hs.cgm_agent.object THEN NoneHasNoAttribute(hs, logged, "cgm_monitoring")
            ELSE replied(process_glucose_reading(hs.cgm_agent.authenticated_user_id,
                                                 turn.glucose_reading, logged))
    IN  IF reading_missing(turn.glucose_reading)
        THEN Step(hs, store, Reply("I couldn't find a glucose reading in your message.",
                                   "CGMAgent", hs.system_state),
                  "cgm_monitoring", NoCall)
        ELSE requested(log_agent_interaction(store, hs.authenticated_user_id, "MainSystem",
                                             "CGMAgent", "glucose_logging_request",
                                             turn.glucose_reading))

\* _handle_food_logging
handle_food_logging(hs, store, turn, llm) ==
    LET replied(out) ==
            Step(hs, out.store, HandlerReply(out, "FoodIntakeAgent", hs.system_state, "food"),
                 "food_logging", Called("log_meal", hs.food_intake_agent, out))
        requested(logged) ==
            IF ~hs.food_intake_agent.object THEN NoneHasNoAttribute(hs, logged, "food_logging")
            ELSE replied(log_meal(hs.food_intake_agent.authenticated_user_id,
                                  turn.meal_description, llm.nutrition, logged))
    IN  requested(log_agent_interaction(store, hs.authenticated_user_id, "MainSystem",
                                        "FoodIntakeAgent", "food_logging_request",
                                        turn.meal_description))

\* _handle_meal_planning
handle_meal_planning(hs, store, turn, llm) ==
    LET replied(out) ==
            Step(hs, out.store, HandlerReply(out, "MealPlannerAgent", hs.system_state, None),
                 "meal_planning", Called("generate_meal_plan", hs.meal_planner_agent, out))
        requested(logged) ==
            IF ~hs.meal_planner_agent.object THEN NoneHasNoAttribute(hs, logged, "meal_planning")
            ELSE replied(generate_meal_plan(hs.meal_planner_agent.authenticated_user_id,
                                            turn.plan_date, llm.plan, logged))
        planned(user_context) ==
            IF user_context = NoUser
            THEN Step(hs, store, Raised("TypeError"), "meal_planning", NoCall)
            ELSE requested(log_agent_interaction(
                               store, hs.authenticated_user_id, "MainSystem", "MealPlannerAgent",
                               "meal_planning_request",
                               <<turn.plan_date, user_context.dietary_category>>))
    IN  planned(get_user_context(hs.authenticated_user_id))

\* The reply of a trend turn: the formatter reads keys the mood and glucose
\* results lack as soon as there is an entry, which raises KeyError.
TrendStep(hs, out, agent_used, tool, handler, count, formats) ==
    IF count = 0
    THEN Step(hs, out.store, Reply(out.result.message, agent_used, hs.system_state),
              "insights_request", Called(tool, handler, out))
    ELSE IF formats
    THEN Step(hs, out.store, Reply("Days Analyzed", agent_used, hs.system_state),
              "insights_request", Called(tool, handler, out))
    ELSE Step(hs, out.store, Raised("KeyError"), "insights_request", Called(tool, handler, out))

\* _handle_insights_request
handle_insights_request(hs, store, turn) ==
    LET mentions(word) == word \in turn.mentions
        mood(out) == TrendStep(hs, out, "MoodTrackerAgent", "get_mood_trends",
                               hs.mood_tracker_agent, out.result.entries_count, FALSE)
        glucose(out) == TrendStep(hs, out, "CGMAgent", "get_glucose_trends",
                                  hs.cgm_agent, out.result.readings_count, FALSE)
        food(out) == TrendStep(hs, out, "FoodIntakeAgent", "get_nutrition_insights",
                               hs.food_intake_agent, out.result.days_analyzed, TRUE)
    IN  IF mentions("mood")
        THEN IF ~hs.mood_tracker_agent.object THEN NoneHasNoAttribute(hs, store, "insights_request")
             ELSE mood(get_mood_trends(hs.mood_tracker_agent.authenticated_user_id, store))
        ELSE IF mentions("glucose") \/ mentions("cgm")
        THEN IF ~hs.cgm_agent.object THEN NoneHasNoAttribute(hs, store, "insights_request")
             ELSE glucose(get_glucose_trends(hs.cgm_agent.authenticated_user_id, store))
        ELSE IF mentions("nutrition") \/ mentions("food")
        THEN IF ~hs.food_intake_agent.object THEN NoneHasNoAttribute(hs, store, "insights_request")
             ELSE food(get_nutrition_insights(hs.food_intake_agent.authenticated_user_id, store))
        ELSE IF has_health_summary(hs.authenticated_user_id)
        THEN Step(hs, store, Reply("Comprehensive Health Summary", "SystemInsights", hs.system_state),
                  "insights_request", NoCall)
        ELSE Step(hs, store, Reply("Unable to retrieve health data. Please log in first.",
                                   "SystemInsights", hs.system_state),
                  "insights_request", NoCall)

\* _handle_general_question: the interrupt agent answers; nothing is stored
handle_general_question(hs, store, turn) ==
    Step(hs, store, Reply("answer", "InterruptAgent", hs.system_state), "general_question", NoCall)

SystemCommands == {"help", "features", "what can you do", "options"}

\* A variant that also takes a greeting for a logout.
LogoutCommandsAndHello == {"logout", "sign out", "exit", "hello"}

LogoutCommands == {"logout", "sign out", "exit"}

\* A variant that sends an authenticated turn through the authentication
\* resolver again.
RouteThroughAuthentication(hs, store, turn, llm, fault) ==
    handle_authentication(hs, store, turn, fault)

\* _route_authenticated_request
route_authenticated_request(hs, store, turn, llm, fault) ==
    LET caught(handled) ==
            IF handled.reply.raised
            THEN [handled EXCEPT !.reply = Reply("Sorry, I encountered an error", "SystemError",
                                                 hs.system_state)]
            ELSE handled
        routed(intent) ==
            caught(CASE fault = StoreDown /\ intent # "general_question" ->
                            Step(hs, store, Raised("OperationalError"), intent, NoCall)
                     [] intent = "mood_tracking" -> handle_mood_tracking(hs, store, turn)
                     [] intent = "cgm_monitoring" -> handle_cgm_monitoring(hs, store, turn)
                     [] intent = "food_logging" -> handle_food_logging(hs, store, turn, llm)
                     [] intent = "meal_planning" -> handle_meal_planning(hs, store, turn, llm)
                     [] intent = "insights_request" -> handle_insights_request(hs, store, turn)
                     [] OTHER -> handle_general_question(hs, store, turn))
    IN  IF turn.input_lower \in SystemCommands
        THEN Step(hs, store, Reply("System features", "InterruptAgent", hs.system_state),
                  "system_command", NoCall)
        ELSE IF turn.input_lower \in LogoutCommands THEN handle_logout(hs, store)
        ELSE routed(turn.intent)

\* HealthAgentSystem.process_user_input
process_user_input(hs, store, raw_input, llm, fault) ==
    LET dispatched(turn) ==
            IF turn.user_input = ""
            THEN Step(hs, store, Reply("Please enter a message!", None, hs.system_state),
                      "empty", NoCall)
            ELSE IF hs.system_state = "unauthenticated"
            THEN handle_authentication(hs, store, turn, fault)
            ELSE route_authenticated_request(hs, store, turn, llm, fault)
    IN  dispatched(Lexed[raw_input])

\* ------------------------------------------------------------------------
\* The tool layer (HealthAgent): every tool returns a text
\* ------------------------------------------------------------------------

\* The text of a reply dict: result.get("response")
Text(reply) == [Reply(reply.response, None, None) EXCEPT !.listed = reply.listed]

Message(response) == Reply(response, None, None)

\* A tool body of the form  try: <operation>  except: return "<error text>"
Guarded(step, error_text) ==
    [step EXCEPT !.reply = IF step.reply.raised THEN Message(error_text) ELSE Text(step.reply)]

NoBackend == Backend("json", "json")

\* HealthAgent.process_health_request
process_health_request(hs, store, user_input, llm, fault) ==
    Guarded(process_user_input(hs, store, user_input, llm, fault), "Sorry, I encountered an error")

\* The reset at the head of authenticate_user, search_user_by_name and
\* reset_system_state
reset_session(hs) ==
    [hs EXCEPT !.authenticated_user_id = None, !.current_user_name = None,
               !.system_state = "unauthenticated",
               !.cgm_agent = NullRef, !.mood_tracker_agent = NullRef,
               !.food_intake_agent = NullRef, !.meal_planner_agent = NullRef]

\* HealthAgent.authenticate_user
authenticate_user(hs, store, user_id, fault) ==
    Guarded(process_user_input(reset_session(hs), store, user_id, NoBackend, fault),
            "Authentication error")

\* HealthAgent.search_user_by_name
search_user_by_name(hs, store, name) ==
    Guarded(process_user_input(reset_session(hs), store, "My name is " \o name, NoBackend, None),
            "Search error")

\* HealthAgent.logout_user
logout_user(hs, store) ==
    Guarded(process_user_input(hs, store, "logout", NoBackend, None), "Logout error")

\* HealthAgent.reset_system_state
reset_system_state(hs, store) ==
    Step(reset_session(hs), store, Message("System State Reset"), "reset", NoCall)

\* HealthAgent.get_system_status
get_system_status(hs, store) ==
    Step(hs, store,
         IF hs.system_state = "authenticated" /\ hs.current_user_name # None
         THEN Message("Status: Authenticated") ELSE Message("Status: Not authenticated"),
         "status", NoCall)

\* HealthAgent.get_health_dashboard_data
get_health_dashboard_data(hs, store) ==
    Step(hs, store,
         IF hs.system_state # "authenticated"
         THEN Message("Please authenticate with your user ID first.")
         ELSE IF ~has_health_summary(hs.authenticated_user_id)
                 \/ \A table \in {"mood_tracking", "cgm_readings", "food_intake"} :
                       EntriesCount(store, table, hs.authenticated_user_id) = 0
         THEN Message("No health data available yet.")
         ELSE Message("Health Dashboard"),
         "dashboard", NoCall)

\* A variant of the guard that lets every session through.
AnySessionMayCall(hs) == TRUE

\* The guard at the head of the seven direct tools
may_call_directly(hs) == hs.system_state = "authenticated"

\* The shared body of the direct tools: refuse unless authenticated, create
\* the handlers when the one needed is missing, call the tool on it and
\* return the text made of its result; any exception becomes an error text.
direct_tool(hs, store, field, tool, Run(_, _), Show(_), fault) ==
    IF ~may_call_directly(hs)
    THEN Step(hs, store, Message("Please authenticate first"), "refused", NoCall)
    ELSE LET called(after, handler, out) ==
                 Step(after, out.store, Message(Show(out.result)), "direct",
                      Called(tool, handler, out))
             bound(init, handler) ==
                 IF init.raised \/ ~handler.object
                 THEN Step(init.hs, store, Message("Error"), "direct", NoCall)
                 ELSE called(init.hs, handler, Run(handler.authenticated_user_id, store))
             prepared(init) == bound(init, init.hs[field])
         IN  prepared(IF hs[field].object THEN [hs |-> hs, raised |-> FALSE]
                      ELSE initialize_authenticated_agents(hs, fault))

ResultMessage(result) == result.message

log_mood_direct(hs, store, mood_description, fault) ==
    direct_tool(hs, store, "mood_tracker_agent", "log_mood",
                LAMBDA user_id, st : log_mood(user_id, mood_description, st), ResultMessage, fault)

log_glucose_direct(hs, store, glucose_reading, fault) ==
    direct_tool(hs, store, "cgm_agent", "process_glucose_reading",
                LAMBDA user_id, st : process_glucose_reading(user_id, glucose_reading, st),
                ResultMessage, fault)

log_food_direct(hs, store, meal_description, llm, fault) ==
    direct_tool(hs, store, "food_intake_agent", "log_meal",
                LAMBDA user_id, st : log_meal(user_id, meal_description, llm.nutrition, st),
                ResultMessage, fault)

generate_meal_plan_direct(hs, store, plan_date, llm, fault) ==
    direct_tool(hs, store, "meal_planner_agent", "generate_meal_plan",
                LAMBDA user_id, st : generate_meal_plan(user_id, plan_date, llm.plan, st),
                ResultMessage, fault)

get_mood_trends_direct(hs, store, fault) ==
    direct_tool(hs, store, "mood_tracker_agent", "get_mood_trends", get_mood_trends,
                LAMBDA result : IF result.status = "success" /\ result.entries_count > 0
                                THEN "Mood Trends" ELSE "No mood data available.",
                fault)

get_glucose_trends_direct(hs, store, fault) ==
    direct_tool(hs, store, "cgm_agent", "get_glucose_trends", get_glucose_trends,
                LAMBDA result : IF result.status = "success" /\ result.readings_count > 0
                                THEN "Glucose Trends" ELSE "No glucose data available.",
                fault)

get_nutrition_insights_direct(hs, store, fault) ==
    direct_tool(hs, store, "food_intake_agent", "get_nutrition_insights", get_nutrition_insights,
                LAMBDA result : IF result.status = "success" /\ result.days_analyzed > 0
                                THEN "Nutrition Insights" ELSE "No nutrition data available.",
                fault)

\* ------------------------------------------------------------------------
\* Handler tools called on a handler object
\* ------------------------------------------------------------------------

HandlerTools ==
    {"log_mood", "get_mood_trends", "suggest_mood_boosters",
     "process_glucose_reading", "get_glucose_trends",
     "log_meal", "get_nutrition_insights", "generate_meal_plan"}

\* The session field holding the handler that owns a tool
OwnerOf(tool) ==
    CASE tool \in {"log_mood", "get_mood_trends", "suggest_mood_boosters"} -> "mood_tracker_agent"
      [] tool \in {"process_glucose_reading", "get_glucose_trends"} -> "cgm_agent"
      [] tool \in {"log_meal", "get_nutrition_insights"} -> "food_intake_agent"
      [] tool = "generate_meal_plan" -> "meal_planner_agent"

\* A handler made by its factory without a user: create_*_agent()
UnboundHandler == Handler(None)

\* The tool run on a handler object with the arguments of the model
handler_tool(tool, handler, store, llm) ==
    LET user_id == handler.authenticated_user_id
    IN  CASE tool = "log_mood" -> log_mood(user_id, "a bit tired", store)
          [] tool = "get_mood_trends" -> get_mood_trends(user_id, store)
          [] tool = "suggest_mood_boosters" -> suggest_mood_boosters(user_id, 0, store)
          [] tool = "process_glucose_reading" -> process_glucose_reading(user_id, 65, store)
          [] tool = "get_glucose_trends" -> get_glucose_trends(user_id, store)
          [] tool = "log_meal" -> log_meal(user_id, "oatmeal with berries", llm.nutrition, store)
          [] tool = "get_nutrition_insights" -> get_nutrition_insights(user_id, store)
          [] tool = "generate_meal_plan" -> generate_meal_plan(user_id, None, llm.plan, store)

\* ------------------------------------------------------------------------
\* The state machine
\* ------------------------------------------------------------------------

VARIABLES
    health_system,  \* the HealthAgentSystem of the HealthAgent
    db,             \* the rows of the store
    reply,          \* what the last operation returned
    call,           \* the last operation: its name, its text input, the session
                    \* state it found, the branch it took, the handler tool it ran
    validated,      \* ids the store has returned a profile for to the
                    \* authentication resolver since the session last became
                    \* authenticated; empty while it is not
    logged_out,     \* whether a logout command ended the last authenticated
                    \* period of the session and no id was accepted since
    method_call     \* one method taken on its own: its arguments and, once it
                    \* has returned, its result

vars == <<health_system, db, reply, call, validated, logged_out, method_call>>

\* A call of one method: the arguments the method does not take keep their
\* blank values, and so do the results it does not give.
MethodCall(method, text, reading, key, conditions, readable) ==
    [method |-> method, text |-> text, reading |-> reading, key |-> key,
     conditions |-> conditions, readable |-> readable,
     returned |-> FALSE, label |-> None, score |-> 0, range |-> Range(0, 0, 0, 0),
     nutrients |-> Nutrients(0, 0, 0, 0),
     llm |-> NoBackend, before |-> EmptyStore, after |-> EmptyStore,
     reply |-> Message(None), handler_call |-> NoCall]

NoMethodCall == MethodCall(None, None, NoReading, None, {}, FALSE)

Constructed ==
    /\ health_system = NewHealthAgentSystem
    /\ db = EmptyStore
    /\ reply = Message(None)
    /\ call = [op |-> "__init__", input |-> None, was |-> None, branch |-> None,
               handler_call |-> NoCall]
    /\ validated = {}
    /\ logged_out = FALSE

Init ==
    /\ Constructed
    /\ method_call = NoMethodCall

\* An operation runs to completion in one step.  Operations that write are
\* accepted while the store holds fewer than MaxRows rows.
Commit(op, input, step) ==
    /\ step.store # db => TotalRows(db) < MaxRows
    /\ health_system' = step.hs
    /\ db' = step.store
    /\ reply' = step.reply
    /\ call' = [op |-> op, input |-> input, was |-> health_system.system_state,
                branch |-> step.branch, handler_call |-> step.handler_call]
    /\ validated' = IF step.hs.system_state # "authenticated" THEN {}
                    ELSE IF step.branch = "user_id" THEN step.validated
                    ELSE validated
    /\ logged_out' = IF step.hs.system_state # "unauthenticated" THEN FALSE
                     ELSE IF health_system.system_state = "unauthenticated" THEN logged_out
                     ELSE step.branch = "logout"
    /\ method_call' = method_call

\* The backend outcomes tried on calls that bypass the dispatcher
DirectBackends == {Backend("json", "json"), Backend("raises", "fallback")}

\* The backend outcomes that matter to a turn with the given intent
Backends(intent) ==
    IF intent = "food_logging" THEN {Backend(n, "json") : n \in NutritionReplies}
    ELSE IF intent = "meal_planning" THEN {Backend("json", p) : p \in PlanReplies}
    ELSE {NoBackend}

\* The faults tried on a turn: the store is made to fail on two inputs
Faults(user_input) ==
    IF user_input \in {"1001", "Show me my mood trends"} THEN {None, StoreDown} ELSE {None}

ProcessUserInput ==
    \E user_input \in Utterances :
        \E llm \in Backends(Lexed[user_input].intent), fault \in Faults(user_input) :
            Commit("process_user_input", user_input,
                   process_user_input(health_system, db, user_input, llm, fault))

\* Texts given to the tool layer in place of the dispatcher
Requests == {"1001", "My name is Jane Doe", "logout", "I'm feeling really great today!"}

ProcessHealthRequest ==
    \E user_input \in Requests :
        \E llm \in Backends(Lexed[user_input].intent) :
            Commit("process_health_request", user_input,
                   process_health_request(health_system, db, user_input, llm, None))

AuthenticateUser ==
    \E user_id \in {"1001", " 1002 ", "ab12cd34", "9999", "hello"} :
        Commit("authenticate_user", user_id, authenticate_user(health_system, db, user_id, None))

SearchUserByName ==
    \E name \in {"Jane Doe", "John Smith", "Bob"} :
        Commit("search_user_by_name", "My name is " \o name,
               search_user_by_name(health_system, db, name))

LogoutUser == Commit("logout_user", "logout", logout_user(health_system, db))

ResetSystemState == Commit("reset_system_state", None, reset_system_state(health_system, db))

GetSystemStatus == Commit("get_system_status", None, get_system_status(health_system, db))

GetHealthDashboardData ==
    Commit("get_health_dashboard_data", None, get_health_dashboard_data(health_system, db))

LogMoodDirect ==
    \E mood_description \in {"a bit tired"} :
        Commit("log_mood_direct", None,
               log_mood_direct(health_system, db, mood_description, None))

LogGlucoseDirect ==
    \E glucose_reading \in {10, 65, 120} :
        Commit("log_glucose_direct", None,
               log_glucose_direct(health_system, db, glucose_reading, None))

LogFoodDirect ==
    \E meal_description \in {"oatmeal with berries", "  "} :
        \E llm \in DirectBackends :
            Commit("log_food_direct", None,
                   log_food_direct(health_system, db, meal_description, llm, None))

GenerateMealPlanDirect ==
    \E plan_date \in {None} :
        \E llm \in DirectBackends :
            Commit("generate_meal_plan_direct", None,
                   generate_meal_plan_direct(health_system, db, plan_date, llm, None))

GetMoodTrendsDirect ==
    Commit("get_mood_trends_direct", None, get_mood_trends_direct(health_system, db, None))

GetGlucoseTrendsDirect ==
    Commit("get_glucose_trends_direct", None, get_glucose_trends_direct(health_system, db, None))

GetNutritionInsightsDirect ==
    Commit("get_nutrition_insights_direct", None,
           get_nutrition_insights_direct(health_system, db, None))

\* A tool called on a handler object itself: the session's handler when it
\* has one, or a handler made without a user.
HandlerTool ==
    \E tool \in HandlerTools :
        \E handler \in {health_system[OwnerOf(tool)], UnboundHandler},
           llm \in IF tool \in {"log_meal", "generate_meal_plan"} THEN DirectBackends
                   ELSE {NoBackend} :
            /\ handler.object
            /\ LET returned(out) ==
                       Step(health_system, out.store,
                            [Message(out.result.message) EXCEPT !.status = out.result.status],
                            "handler", Called(tool, handler, out))
               IN  Commit(tool, None, returned(handler_tool(tool, handler, db, llm)))

Next ==
    \/ ProcessUserInput
    \/ ProcessHealthRequest
    \/ AuthenticateUser
    \/ SearchUserByName
    \/ LogoutUser
    \/ ResetSystemState
    \/ GetSystemStatus
    \/ GetHealthDashboardData
    \/ LogMoodDirect
    \/ LogGlucoseDirect
    \/ LogFoodDirect
    \/ GenerateMealPlanDirect
    \/ GetMoodTrendsDirect
    \/ GetGlucoseTrendsDirect
    \/ GetNutritionInsightsDirect
    \/ HandlerTool

Spec == Init /\ [][Next]_vars

\* A log-in during which create_food_intake_agent raises (a missing
\* environment variable, or the store failing in init_agent_tables)
LogInWhileFactoryFails ==
    \E user_input \in {"1001"} :
        Commit("process_user_input", user_input,
               process_user_input(health_system, db, user_input, NoBackend, "food_intake_agent"))

FaultNext ==
    \/ Next
    \/ LogInWhileFactoryFails

\* The sessions of Spec, with handler factories that may fail
FaultSpec == Init /\ [][FaultNext]_vars

\* ------------------------------------------------------------------------
\* The methods that compute from their arguments alone, each called once on
\* arguments drawn from the sets below
\* ------------------------------------------------------------------------

\* Texts given to _detect_primary_intent: with and without a glucose value
\* pattern, with keywords of one category, of several, and of none
IntentTexts ==
    {"", "hello", "thanks a lot", "mg 120", "i am 30 years old", "5 pizzas",
     "120 mg", "My sugar is 95mg/dL", "i feel happy 120 mg", "I FEEL GREAT 120  MG",
     "i just ate pizza 140 mg", "plan my meals 110 mg", "show me my trends 130 mg",
     "glucose 120", "sugar was 99", "reading 88", "120 glucose", "check my glucose",
     "sad", "diabetes", "breakfast", "menu", "summary",
     "mood cgm", "cgm pizza salad", "pizza rice trends", "today tomorrow history",
     "plan cgm", "mood reading 88", "mood cgm pizza rice plan trends", "cgm menu", "mood summary report",
     "check today", "i ate lunch", "I'm so tired", "suggest a meal", "how am i doing"}

\* Labels given to convert_mood_to_score: every key of the table, keys in
\* other case or padded, descriptions of each keyword tier, and texts that
\* match nothing
MoodLabels ==
    MoodScoreKeys
    \cup {"", " ", "Ecstatic", "  GREAT  ", "the worst day", "very sad indeed", "feeling blue",
          "a bit sluggish", "much better", "content", "awesome!", "energetic", "euphoric",
          "meh", "not bad", "so-so", "xyz", "42", "bad day", "okay i guess"}

\* Readings given to the classification, and the highest one tried
MaxReading == 620

ReadingsTried == 0..MaxReading

RangeKeys == {"Type 1 Diabetes", "Type 2 Diabetes", "Pre-diabetes", "None", "default"}

\* Conditions a profile may list
ConditionsTried == {"Type 1 Diabetes", "Type 2 Diabetes", "Pre-diabetes", "None", "Hypertension"}

\* A store in which user 1001 has logged a mood, a reading of 120 and a
\* meal
LoggedStore ==
    log_meal("1001", "oatmeal with berries", "json",
             process_glucose_reading("1001", 120,
                                     log_mood("1001", "a bit tired", EmptyStore).store).store).store

StoresTried == {EmptyStore, LoggedStore}

MethodCalls ==
    {MethodCall("_detect_primary_intent", text, NoReading, None, {}, FALSE) : text \in IntentTexts}
    \cup {MethodCall("convert_mood_to_score", text, NoReading, None, {}, FALSE) : text \in MoodLabels}
    \cup {MethodCall("process_glucose_reading", None, glucose_reading, key, {}, FALSE) :
             glucose_reading \in ReadingsTried, key \in RangeKeys}
    \cup {MethodCall("get_user_cgm_range", None, NoReading, None, conditions, readable) :
             conditions \in SUBSET ConditionsTried, readable \in BOOLEAN}
    \cup {[MethodCall("log_mood", mood_input, NoReading, None, {}, FALSE) EXCEPT !.before = store] :
             mood_input \in MoodInputs, store \in StoresTried}
    \cup {MethodCall("_handle_food_logging", llm, NoReading, None, {}, FALSE) : llm \in NutritionReplies}
    \cup {[MethodCall("handler_tool", tool, glucose_reading, None, {}, FALSE)
              EXCEPT !.llm = llm, !.before = store] :
             tool \in HandlerTools \ {"process_glucose_reading"}, glucose_reading \in {NoReading},
             llm \in DirectBackends, store \in StoresTried}
    \cup {[MethodCall("process_user_input", user_input, NoReading, None, {}, FALSE)
              EXCEPT !.llm = llm, !.before = store] :
             user_input \in Utterances \cup TrendRequests, llm \in DirectBackends,
             store \in StoresTried}
    \cup {[MethodCall("handler_tool", "process_glucose_reading", glucose_reading, None, {}, FALSE)
              EXCEPT !.before = store] :
             glucose_reading \in {65, 120, 200, 300}, store \in StoresTried}

MethodInit ==
    /\ Constructed
    /\ method_call \in MethodCalls

\* The method named is called on its arguments and returns
Calling(method) ==
    /\ method_call.method = method
    /\ ~method_call.returned
    /\ UNCHANGED <<health_system, db, reply, call, validated, logged_out>>

DetectPrimaryIntent ==
    /\ Calling("_detect_primary_intent")
    /\ method_call' = [method_call EXCEPT !.returned = TRUE,
                                          !.label = detect_primary_intent(method_call.text)]

ConvertMoodToScore ==
    /\ Calling("convert_mood_to_score")
    /\ method_call' = [method_call EXCEPT !.returned = TRUE,
                                          !.score = convert_mood_to_score(method_call.text)]

\* process_glucose_reading from its bounds test to the alert level, for a
\* user whose range is the entry of cgm_ranges under the key
ClassifyGlucoseReading ==
    /\ Calling("process_glucose_reading")
    /\ method_call' = [method_call EXCEPT
                           !.returned = TRUE,
                           !.range = cgm_ranges(method_call.key),
                           !.label = IF reading_accepted(method_call.reading)
                                     THEN AlertType(method_call.reading, cgm_ranges(method_call.key))
                                     ELSE "error"]

\* get_user_cgm_range when the store answers with a profile listing the
\* conditions, or with no profile
GetUserCgmRange ==
    /\ Calling("get_user_cgm_range")
    /\ method_call' = [method_call EXCEPT
                           !.returned = TRUE,
                           !.range = range_of_profile(
                                         IF method_call.readable
                                         THEN Profile("u", "n", "c", "d", method_call.conditions)
                                         ELSE NoUser)]

\* A tool of a handler bound to user 1001, called on one of the stores
CallHandlerTool ==
    /\ Calling("handler_tool")
    /\ LET returned(out) ==
               [method_call EXCEPT !.returned = TRUE, !.label = out.result.status,
                                   !.after = out.store]
       IN  method_call' =
               returned(IF method_call.text = "process_glucose_reading"
                        THEN process_glucose_reading("1001", method_call.reading, method_call.before)
                        ELSE handler_tool(method_call.text, Handler("1001"), method_call.before,
                                          method_call.llm))

\* log_mood of a handler bound to user 1001, on one of the stores
LogMood ==
    /\ Calling("log_mood")
    /\ LET returned(out) ==
               [method_call EXCEPT !.returned = TRUE, !.label = out.result.status,
                                   !.after = out.store]
       IN  method_call' = returned(log_mood("1001", method_call.text, method_call.before))

\* The session after the turn "1001" of a new session
LoggedInSession ==
    process_user_input(NewHealthAgentSystem, EmptyStore, "1001", NoBackend, None).hs

\* A turn of the session of user 1001 on one of the stores
TurnOfLoggedInSession ==
    /\ Calling("process_user_input")
    /\ LET returned(step) ==
               [method_call EXCEPT
                   !.returned = TRUE,
                   !.label = IF step.reply.raised THEN "raised" ELSE step.branch,
                   !.after = step.store,
                   !.reply = step.reply,
                   !.handler_call = step.handler_call]
       IN  method_call' = returned(process_user_input(LoggedInSession, method_call.before,
                                                      method_call.text, method_call.llm, None))

\* A meal-logging turn of user 1001 on an empty store, the backend giving
\* the reply of the call: the status of the turn, the number of food-intake
\* rows after it and the nutrients of the first
HandleFoodLogging ==
    /\ Calling("_handle_food_logging")
    /\ LET logged(step) ==
               [method_call EXCEPT
                   !.returned = TRUE,
                   !.label = IF step.reply.raised THEN "raised" ELSE step.reply.status,
                   !.score = Len(step.store.food_intake),
                   !.nutrients = IF Len(step.store.food_intake) > 0
                                 THEN step.store.food_intake[1].nutrients
                                 ELSE Nutrients(0, 0, 0, 0)]
       IN  method_call' = logged(process_user_input(LoggedInSession, EmptyStore,
                                                    "I ate grilled chicken with rice",
                                                    Backend(method_call.text, "json"), None))

MethodNext ==
    \/ LogMood
    \/ TurnOfLoggedInSession
    \/ CallHandlerTool
    \/ HandleFoodLogging
    \/ DetectPrimaryIntent
    \/ ConvertMoodToScore
    \/ ClassifyGlucoseReading
    \/ GetUserCgmRange

MethodSpec == MethodInit /\ [][MethodNext]_vars

\* ------------------------------------------------------------------------
\* Properties
\* ------------------------------------------------------------------------

Unauthenticated == health_system.system_state = "unauthenticated"

Authenticated == health_system.system_state = "authenticated"

\* The session carries no user: id and name are None and the four handler
\* references are None
SessionNull(hs) ==
    /\ hs.authenticated_user_id = None
    /\ hs.current_user_name = None
    /\ {hs.cgm_agent, hs.mood_tracker_agent, hs.food_intake_agent, hs.meal_planner_agent} = {NullRef}

\* The handler tool returned the error that asks the user to log in
AsksToLogIn(handler_call) ==
    handler_call.status = "error" /\ StartsWith(handler_call.message, "Please log in first")

IdsListed(users) == {users[k].user_id : k \in 1..Len(users)}

\* Inputs by what the source's lexical rules say of their stripped text
IdShaped == {u \in Utterances : looks_like_user_id(Strip(u))}

Known == {u \in Utterances : DbValidateUserId(Strip(u)) # NoUser}

NameSearches ==
    {u \in Utterances : ~looks_like_user_id(Strip(u)) /\ looks_like_name_search(Strip(u))}

FourDigitInputs == {u \in Utterances : Len(Strip(u)) = 4 /\ AllIn(Strip(u), DIGITS)}

LogoutInputs == {u \in Utterances : Lower(Strip(u)) \in {"logout", "sign out", "exit"}}

\* The ids of the profiles whose name contains the name a search input gives
Candidates ==
    [u \in NameSearches |->
        LET name == Lower(Strip(extract_name_from_input(Strip(u))))
        IN  {UsersTable[i].user_id :
                i \in {j \in 1..Len(UsersTable) : Contains(Lower(UsersTable[j].name), name)}}]

ExpectedBranch ==
    [u \in Utterances |->
        IF Strip(u) = "" THEN "empty"
        ELSE IF looks_like_user_id(Strip(u)) THEN "user_id"
        ELSE IF looks_like_name_search(Strip(u)) THEN "name_search"
        ELSE "help"]

RepliesOf(branch) ==
    CASE branch = "empty" -> {"Please enter a message!"}
      [] branch = "user_id" -> {"Welcome back", "Invalid user ID"}
      [] branch = "name_search" -> {"No users found", "Found a match!", "Found matches"}
      [] branch = "help" -> {"Welcome to your Personal Health Assistant!"}

DirectTools ==
    {"log_mood_direct", "log_glucose_direct", "log_food_direct", "generate_meal_plan_direct",
     "get_mood_trends_direct", "get_glucose_trends_direct", "get_nutrition_insights_direct"}

\* The handler tools that log mood, glucose, food, make a meal plan, or
\* read trends and insights
DomainTools ==
    {"log_mood", "process_glucose_reading", "log_meal", "generate_meal_plan",
     "get_mood_trends", "get_glucose_trends", "get_nutrition_insights"}

\* C1: while the session is unauthenticated no operation changes the store,
\* process_user_input takes a branch of the authentication resolver and
\* calls no handler, and every handler tool that is called (mood, glucose,
\* food, meal plan, trend and suggestion reads) returns the error asking to
\* log in without querying the store.
C1_NoHandlerRunsUnauthenticated ==
    [][Unauthenticated =>
          /\ db' = db
          /\ call'.op = "process_user_input" =>
                call'.branch \in {"empty", "user_id", "name_search", "help"}
                /\ call'.handler_call = NoCall
          /\ call'.handler_call.tool # None =>
                AsksToLogIn(call'.handler_call) /\ call'.handler_call.reads = {}]_vars

\* C2: a logout command in the authenticated state leaves the session
\* unauthenticated with id, name and the four handler references None, and
\* leaves neither the interrupt agent nor the greeting agent holding a user.
C2_LogoutClearsAllUserState ==
    [][(Authenticated /\ call'.branch = "logout") =>
          /\ health_system'.system_state = "unauthenticated"
          /\ SessionNull(health_system')
          /\ health_system'.interrupt_agent.authenticated_user_id = None
          /\ health_system'.interrupt_agent.current_user_name = None
          /\ health_system'.greeting_agent.current_user = NoUser]_vars

C4_AuthenticatedIdWasValidated ==
    Authenticated =>
        /\ health_system.authenticated_user_id \in validated
        /\ validated \subseteq UserIds

C4_Witness ==
    /\ Authenticated
    /\ health_system.authenticated_user_id = "ab12cd34"
    /\ validated = {"ab12cd34"}

\* C5: system_state is "unauthenticated" at the start and is always either
\* "unauthenticated" or "authenticated", in the session and in every reply.
C5_StateIsBinary ==
    /\ health_system.system_state \in {"unauthenticated", "authenticated"}
    /\ reply.system_state \in {None, "unauthenticated", "authenticated"}
    /\ call.op = "__init__" => health_system.system_state = "unauthenticated"

C5_Witness ==
    /\ call.op = "process_user_input"
    /\ call.was = "unauthenticated"
    /\ Authenticated
    /\ reply.system_state = "authenticated"

\* C6: an unauthenticated session becomes authenticated only in a step whose
\* input is shaped like a user id and names a profile of the store; a turn
\* whose input is shaped like an id and names no profile replies that the
\* id is invalid and leaves the session as it was, with no user.
C6_EntersOnlyOnValidatedId ==
    [][Unauthenticated =>
          /\ health_system'.system_state = "authenticated" =>
                call'.input \in IdShaped \cap Known
          /\ (call'.op = "process_user_input" /\ call'.input \in IdShaped \ Known) =>
                /\ reply'.response = "Invalid user ID"
                /\ ~reply'.user_authenticated
                /\ health_system' = health_system
                /\ SessionNull(health_system')]_vars

C6_Witness ==
    /\ call.op = "process_user_input"
    /\ call.was = "unauthenticated"
    /\ call.input = "AB12CD34"
    /\ reply.response = "Invalid user ID"
    /\ Unauthenticated

\* C7: a name-search turn in the unauthenticated state leaves the session
\* unauthenticated and unchanged, and when two profiles match the name the
\* reply lists both of them with their ids.
C7_NameSearchKeepsSession ==
    [][(Unauthenticated /\ call'.op = "process_user_input" /\ call'.input \in NameSearches) =>
          /\ health_system' = health_system
          /\ health_system'.system_state = "unauthenticated"
          /\ health_system'.authenticated_user_id = None
          /\ Cardinality(Candidates[call'.input]) = 2 =>
                /\ Len(reply'.listed) = 2
                /\ IdsListed(reply'.listed) = Candidates[call'.input]]_vars

C7_Witness ==
    /\ call.op = "process_user_input"
    /\ call.input = "My name is Jane Doe"
    /\ IdsListed(reply.listed) = {"1001", "1002"}
    /\ Unauthenticated

\* C8: the reply to a name search is decided by the number of matching
\* profiles: none gives a not-found reply, exactly one gives a confirmation
\* prompt that carries that profile's id and authenticates nobody, two or
\* more give a list of every match with its id.
C8_NameSearchResultByCount ==
    [][(Unauthenticated /\ call'.op = "process_user_input" /\ call'.input \in NameSearches) =>
          LET ids == Candidates[call'.input]
          IN  CASE Cardinality(ids) = 0 ->
                      /\ reply'.response = "No users found"
                      /\ reply'.listed = <<>>
                      /\ reply'.suggested_user_id = None
                [] Cardinality(ids) = 1 ->
                      /\ reply'.response = "Found a match!"
                      /\ reply'.suggested_user_id \in ids
                      /\ ~reply'.user_authenticated
                      /\ health_system'.system_state = "unauthenticated"
                [] OTHER ->
                      /\ reply'.response = "Found matches"
                      /\ Len(reply'.listed) = Cardinality(ids)
                      /\ IdsListed(reply'.listed) = ids]_vars

C8_Witness ==
    /\ call.op = "process_user_input"
    /\ call.input = "My name is John Smith"
    /\ reply.response = "Found a match!"
    /\ reply.suggested_user_id = "ab12cd34"
    /\ Unauthenticated

\* C9: an unauthenticated turn takes exactly the first branch, in the order
\* id shape, name search, help, whose test its input passes, and an input
\* that is exactly four digits is always taken as a user id; a turn that
\* returns gives a reply of that branch.
C9_OneBranchInPriorityOrder ==
    [][(Unauthenticated /\ call'.op = "process_user_input") =>
          /\ call'.branch = ExpectedBranch[call'.input]
          /\ ~reply'.raised => reply'.response \in RepliesOf(ExpectedBranch[call'.input])
          /\ call'.input \in FourDigitInputs =>
                /\ call'.branch = "user_id"
                /\ ~reply'.raised => reply'.response \in RepliesOf("user_id")]_vars

C9_Witness ==
    /\ call.op = "process_user_input"
    /\ call.was = "unauthenticated"
    /\ call.input = "9999"
    /\ call.branch = "user_id"
    /\ reply.response = "Invalid user ID"

\* C10 as stated: an authenticated session becomes unauthenticated only in
\* a step that carries the logout command.
C10_LeavesOnlyByLogout ==
    [][(Authenticated /\ health_system'.system_state # "authenticated") =>
          \/ call'.op = "logout_user"
          \/ call'.op \in {"process_user_input", "process_health_request"}
             /\ call'.input \in LogoutInputs]_vars

\* C10: an authenticated session becomes unauthenticated only in a step
\* that carries the logout command or in a call of the tool layer's
\* authenticate_user, search_user_by_name or reset_system_state, which
\* reset the session first; no other turn of process_user_input does.
C10_LeavesByLogoutOrReset ==
    [][(Authenticated /\ health_system'.system_state # "authenticated") =>
          \/ call'.op = "logout_user"
          \/ call'.op \in {"process_user_input", "process_health_request"}
             /\ call'.input \in LogoutInputs
          \/ call'.op \in {"authenticate_user", "search_user_by_name", "reset_system_state"}]_vars

C10_Witness ==
    /\ call.was = "authenticated"
    /\ call.op = "search_user_by_name"
    /\ Unauthenticated
    /\ SessionNull(health_system)

\* C11: every turn of process_user_input returns a reply, in both session
\* states and with the store failing: no exception leaves the dispatcher,
\* and a turn in which something was raised replies with the generic
\* "Sorry, I encountered an error".
C11_NoExceptionLeavesDispatcher ==
    [][call'.op = "process_user_input" => ~reply'.raised]_vars

\* ------------------------------------------------------------------------
\* Properties of the methods taken on their own
\* ------------------------------------------------------------------------

Returned(method) == method_call.method = method /\ method_call.returned

IntentLabels ==
    {"mood_tracking", "cgm_monitoring", "food_logging", "meal_planning", "insights_request",
     "general_question"}

\* \d+\s*mg
MilligramValue == <<OneOrMore(DIGITS), ZeroOrMore(WHITESPACE), Lit({"mg"})>>

\* One of the four numeric glucose patterns occurs in the lower-cased text
NumericGlucosePattern(text) ==
    \/ Search(text, <<OneOrMore(DIGITS), ZeroOrMore(WHITESPACE), Lit({"mg", "glucose", "sugar", "reading"})>>)
    \/ Search(text, <<Lit({"glucose", "sugar", "reading"}), AnyOnLine, OneOrMore(DIGITS)>>)

\* The five category scores of the text of the call
ScoresOfCall == Scores(Strip(Lower(method_call.text)))

PatternInCall == NumericGlucosePattern(Strip(Lower(method_call.text)))

\* The label is a category, and its score is the greatest of the five
LabelHasMaximalScore(label, scores) ==
    \E k \in 1..5 : label = IntentOrder[k] /\ \A j \in 1..5 : scores[j] <= scores[k]

\* The label is the first category, in the order of the scores, whose score
\* is the greatest of the five
LabelIsFirstMaximal(label, scores) ==
    \E k \in 1..5 :
        /\ label = IntentOrder[k]
        /\ \A j \in 1..5 : scores[j] <= scores[k]
        /\ \A i \in 1..(k - 1) : scores[i] < scores[k]

\* Two or more categories share the greatest score, and it is not zero
TieAtNonzeroMaximum(scores) ==
    \E k \in 1..5, j \in 1..5 :
        /\ k # j /\ scores[k] = scores[j] /\ scores[k] > 0
        /\ \A i \in 1..5 : scores[i] <= scores[k]

\* C12: every input that contains a number, optional whitespace and "mg" is
\* classified cgm_monitoring, whatever the scores of the other categories.
C12_MilligramsShortCircuit ==
    (Returned("_detect_primary_intent") /\ Search(method_call.text, MilligramValue))
        => method_call.label = "cgm_monitoring"

C12_Witness ==
    /\ Returned("_detect_primary_intent")
    /\ Search(method_call.text, MilligramValue)
    /\ ScoresOfCall[1] > 0 /\ ScoresOfCall[2] = 0
    /\ method_call.label = "cgm_monitoring"

\* C13 as stated: the classifier returns one of the six labels; it returns
\* general_question exactly when no numeric glucose pattern matches and the
\* five scores are zero; in every other case the category returned has the
\* greatest score.
C13_ResultHasMaximalScore ==
    Returned("_detect_primary_intent") =>
        /\ method_call.label \in IntentLabels
        /\ method_call.label = "general_question"
               <=> (~PatternInCall /\ \A k \in 1..5 : ScoresOfCall[k] = 0)
        /\ method_call.label # "general_question"
               => LabelHasMaximalScore(method_call.label, ScoresOfCall)

\* C13: the classifier returns one of the six labels; it returns
\* general_question exactly when no numeric glucose pattern matches and the
\* five scores are zero; when a numeric glucose pattern matches it returns
\* cgm_monitoring whatever the scores; in the remaining case the category
\* returned has the greatest score.
C13_MaximalScoreUnlessPattern ==
    Returned("_detect_primary_intent") =>
        /\ method_call.label \in IntentLabels
        /\ method_call.label = "general_question"
               <=> (~PatternInCall /\ \A k \in 1..5 : ScoresOfCall[k] = 0)
        /\ PatternInCall => method_call.label = "cgm_monitoring"
        /\ (~PatternInCall /\ method_call.label # "general_question")
               => LabelHasMaximalScore(method_call.label, ScoresOfCall)

C13_Witness ==
    /\ Returned("_detect_primary_intent")
    /\ ~PatternInCall
    /\ method_call.label = "insights_request"
    /\ ScoresOfCall[1] > 0 /\ ScoresOfCall[5] > ScoresOfCall[1]

\* C14 as stated: whenever two or more categories tie at a nonzero greatest
\* score, the classifier returns the tied category that comes first in the
\* order mood, glucose, food, meal planning, insights.
C14_TieGoesToFirst ==
    (Returned("_detect_primary_intent") /\ TieAtNonzeroMaximum(ScoresOfCall))
        => LabelIsFirstMaximal(method_call.label, ScoresOfCall)

\* C14: when no numeric glucose pattern matches and two or more categories
\* tie at a nonzero greatest score, the classifier returns the tied category
\* that comes first in the order mood, glucose, food, meal planning,
\* insights.
C14_TieGoesToFirstUnlessPattern ==
    (Returned("_detect_primary_intent") /\ ~PatternInCall /\ TieAtNonzeroMaximum(ScoresOfCall))
        => LabelIsFirstMaximal(method_call.label, ScoresOfCall)

C14_Witness ==
    /\ Returned("_detect_primary_intent")
    /\ ~PatternInCall
    /\ ScoresOfCall[2] = ScoresOfCall[3] /\ ScoresOfCall[2] > 0
    /\ \A k \in 1..5 : ScoresOfCall[k] <= ScoresOfCall[2]
    /\ ScoresOfCall[1] < ScoresOfCall[2]
    /\ method_call.label = "cgm_monitoring"

\* The words of the keyword tiers of convert_mood_to_score
MoodTierWords ==
    <<"terrible", "awful", "horrible", "worst", "very sad", "depressed", "miserable",
      "devastated", "sad", "down", "low", "blue", "upset", "tired", "sluggish", "drained",
      "exhausted", "weary", "good", "decent", "alright", "better", "happy", "positive",
      "cheerful", "content", "great", "wonderful", "fantastic", "awesome", "excited",
      "amazing", "thrilled", "energetic", "ecstatic", "overjoyed", "blissful", "euphoric">>

MatchesNoTierAndNoKey(mood_label) ==
    /\ Strip(Lower(mood_label)) \notin MoodScoreKeys
    /\ ~AnyOf(MoodTierWords, Strip(Lower(mood_label)))

\* C15: convert_mood_to_score gives every label a whole score from 1 to 10,
\* and gives 5 to a label that matches no table entry and no keyword tier.
C15_MoodScoreIsTotal ==
    Returned("convert_mood_to_score") =>
        /\ method_call.score \in 1..10
        /\ MatchesNoTierAndNoKey(method_call.text) => method_call.score = 5

C15_Witness ==
    /\ Returned("convert_mood_to_score")
    /\ method_call.text = "xyz"
    /\ MatchesNoTierAndNoKey(method_call.text)
    /\ method_call.score = 5

\* The five cases of the classification of a reading against a range, in
\* the order critical_low, low, normal, high, critical_high
SeverityCases(glucose_reading, user_ranges) ==
    << glucose_reading < 70,
       glucose_reading >= 70 /\ glucose_reading < user_ranges.target_min,
       user_ranges.target_min <= glucose_reading /\ glucose_reading <= user_ranges.target_max,
       glucose_reading > user_ranges.target_max /\ glucose_reading <= 250,
       glucose_reading > 250 >>

Severities == <<"critical_low", "low", "normal", "high", "critical_high">>

\* C16: for each configured range and each reading from 20 to 600, exactly
\* one of the five cases holds, and the alert level is the one of that case:
\* critical_low below 70, low from 70 to below target_min, normal within
\* target_min..target_max, high above target_max up to 250, critical_high
\* above 250.
C16_SeverityByCase ==
    (Returned("process_glucose_reading") /\ method_call.reading \in 20..600) =>
        /\ Cardinality({k \in 1..5 : SeverityCases(method_call.reading, method_call.range)[k]}) = 1
        /\ \A k \in 1..5 :
               SeverityCases(method_call.reading, method_call.range)[k]
                   <=> method_call.label = Severities[k]

C16_Witness ==
    /\ Returned("process_glucose_reading")
    /\ method_call.key = "Type 2 Diabetes"
    /\ method_call.reading = 75
    /\ method_call.label = "low"

\* The conditions that choose a range, in the order of their priority
ConditionPriority == <<"Type 1 Diabetes", "Type 2 Diabetes", "Pre-diabetes">>

\* C17: the range of a user is the one of the first of Type 1 Diabetes,
\* Type 2 Diabetes, Pre-diabetes that the conditions contain, whatever else
\* they contain; else the one of None when the conditions contain None or
\* are empty; else the default; and the default when the profile cannot be
\* read.
C17_RangeByPriority ==
    Returned("get_user_cgm_range") =>
        method_call.range =
            IF ~method_call.readable THEN Range(70, 180, 80, 140)
            ELSE IF \E k \in 1..3 : ConditionPriority[k] \in method_call.conditions
            THEN cgm_ranges(ConditionPriority[
                     CHOOSE k \in 1..3 :
                         /\ ConditionPriority[k] \in method_call.conditions
                         /\ \A j \in 1..(k - 1) : ConditionPriority[j] \notin method_call.conditions])
            ELSE IF "None" \in method_call.conditions \/ method_call.conditions = {}
            THEN Range(70, 140, 70, 140)
            ELSE Range(70, 180, 80, 140)

C17_Witness ==
    /\ Returned("get_user_cgm_range")
    /\ method_call.readable
    /\ method_call.conditions = {"Type 1 Diabetes", "Type 2 Diabetes", "None", "Hypertension"}
    /\ method_call.range = Range(80, 250, 80, 180)

\* ------------------------------------------------------------------------
\* Properties of glucose turns
\* ------------------------------------------------------------------------

DiabeticConditions == {"Type 1 Diabetes", "Type 2 Diabetes", "Pre-diabetes"}

\* The session is authenticated as a user whose profile lists no diabetic
\* condition
NoDiabeticCondition(hs) ==
    /\ hs.system_state = "authenticated"
    /\ hs.authenticated_user_id \in UserIds
    /\ DbValidateUserId(hs.authenticated_user_id).medical_conditions \cap DiabeticConditions = {}

\* The step is a turn of the dispatcher on the text, taken while
\* authenticated, that returned
TurnOn(text) ==
    /\ call'.op = "process_user_input"
    /\ call'.input = text
    /\ call'.was = "authenticated"
    /\ ~reply'.raised

\* The step stored a glucose reading, and this is its value
ReadingStored == db'.cgm_readings[Len(db'.cgm_readings)].reading

GlucoseTurn ==
    /\ call'.op = "process_user_input"
    /\ call'.was = "authenticated"
    /\ call'.branch = "cgm_monitoring"

\* The reading the extractor finds in the text of the turn
ReadingOfTurn == Lexed[call'.input].glucose_reading

SessionStateUnchanged ==
    /\ health_system'.system_state = health_system.system_state
    /\ health_system'.authenticated_user_id = health_system.authenticated_user_id

\* C19: a glucose turn whose reading is below 20 or above 600, given to a
\* glucose handler that is bound to a user, returns a reply of status error
\* with a message and raises nothing; and whichever way the handler was
\* reached, when it answers with this error the step stores no reading row
\* and no alert row, raises nothing and leaves the session state as it was.
C19_OutOfBoundsIsAnError ==
    [][/\ (/\ GlucoseTurn
           /\ ReadingOfTurn # NoReading
           /\ ReadingOfTurn < 20 \/ ReadingOfTurn > 600
           /\ health_system.cgm_agent.object
           /\ health_system.cgm_agent.authenticated_user_id # None)
          => /\ ~reply'.raised
             /\ reply'.status = "error"
             /\ reply'.response = "Invalid glucose reading"
             /\ call'.handler_call.tool = "process_glucose_reading"
             /\ call'.handler_call.status = "error"
       /\ (/\ call'.handler_call.tool = "process_glucose_reading"
           /\ call'.handler_call.status = "error"
           /\ call'.handler_call.message = "Invalid glucose reading")
          => /\ ~reply'.raised
             /\ db'.cgm_readings = db.cgm_readings
             /\ db'.cgm_alerts = db.cgm_alerts
             /\ SessionStateUnchanged]_vars

C19_Witness ==
    /\ call.op = "process_user_input"
    /\ call.input = "My glucose reading is 650"
    /\ call.was = "authenticated"
    /\ call.handler_call.tool = "process_glucose_reading"
    /\ reply.status = "error" /\ reply.response = "Invalid glucose reading"
    /\ ~reply.raised
    /\ db.cgm_readings = <<>> /\ db.cgm_alerts = <<>>
    /\ health_system.system_state = "authenticated"

\* C20: a glucose turn in whose text the extractor finds no number replies
\* with the clarifying question, calls no handler tool, leaves the store as
\* it was (no reading, alert or interaction row) and leaves the session as
\* it was.
C20_NoReadingAsksForOne ==
    [][(GlucoseTurn /\ ReadingOfTurn = NoReading) =>
           /\ ~reply'.raised
           /\ reply'.response = "I couldn't find a glucose reading in your message."
           /\ reply'.agent_used = "CGMAgent"
           /\ call'.handler_call = NoCall
           /\ db' = db
           /\ health_system' = health_system]_vars

C20_Witness ==
    /\ call.op = "process_user_input"
    /\ call.input = "check my glucose"
    /\ call.was = "authenticated"
    /\ call.branch = "cgm_monitoring"
    /\ Lexed[call.input].glucose_reading = NoReading
    /\ reply.response = "I couldn't find a glucose reading in your message."
    /\ call.handler_call = NoCall
    /\ db = EmptyStore

\* ------------------------------------------------------------------------
\* Properties of meal logging
\* ------------------------------------------------------------------------

\* The replies for which the backend raised, or sent no JSON object that
\* can be parsed between the first { and the last }, or sent an object
\* lacking a required field
FailedReplies ==
    {"raises", "no_json", "open_brace_only", "braces_reversed", "invalid_json", "empty",
     "json_missing_field"}

\* C21: when the backend raises, or its text holds no parseable JSON object
\* between the first { and the last }, or the object lacks a required
\* field, the meal-logging turn has status success and stores one
\* food-intake row, whose nutrients are carbs 30, protein 15, fat 10,
\* calories 250.
C21_FallbackNutrientsAreLogged ==
    (Returned("_handle_food_logging") /\ method_call.text \in FailedReplies) =>
        /\ method_call.label = "success"
        /\ method_call.score = 1
        /\ method_call.nutrients = Nutrients(30, 15, 10, 250)

C21_Witness ==
    /\ Returned("_handle_food_logging")
    /\ method_call.text = "json_missing_field"
    /\ method_call.label = "success"
    /\ method_call.score = 1
    /\ method_call.nutrients = Nutrients(30, 15, 10, 250)

\* ------------------------------------------------------------------------
\* Properties of the writes of the handlers
\* ------------------------------------------------------------------------

LoggingTools == {"log_mood", "process_glucose_reading", "log_meal", "generate_meal_plan"}

InsightTools == {"get_mood_trends", "get_glucose_trends", "get_nutrition_insights"}

\* The table a tool logs to, or reads its aggregate from
DomainTable(tool) ==
    CASE tool \in {"log_mood", "get_mood_trends"} -> "mood_tracking"
      [] tool \in {"process_glucose_reading", "get_glucose_trends"} -> "cgm_readings"
      [] tool \in {"log_meal", "get_nutrition_insights"} -> "food_intake"
      [] tool = "generate_meal_plan" -> "meal_plans"

\* The rows the call added to a table, and to the whole store
Added(table) == Len(method_call.after[table]) - Len(method_call.before[table])

AddedInAll == TotalRows(method_call.after) - TotalRows(method_call.before)

Succeeded(tools) ==
    /\ Returned("handler_tool")
    /\ method_call.text \in tools
    /\ method_call.label = "success"

IsPrefix(rows, longer) == Len(rows) <= Len(longer) /\ SubSeq(longer, 1, Len(rows)) = rows

\* The handler tool the call ran, and whether it succeeded: the tool called
\* on the handler itself, or the one a turn invoked
ToolRun ==
    IF method_call.method = "handler_tool" THEN method_call.text
    ELSE method_call.handler_call.tool

ToolSucceeded ==
    IF method_call.method = "handler_tool" THEN method_call.label = "success"
    ELSE method_call.handler_call.status = "success"

\* C23: a turn or a handler call keeps every row the mood, glucose-reading,
\* alert, food-intake, meal-plan and interaction tables held, in place and
\* unchanged, and only adds rows after them; and a mood, glucose reading,
\* meal or meal plan that is logged with success adds exactly one row to its
\* domain table.
C23_TablesAreAppendOnly ==
    (Returned("handler_tool") \/ Returned("process_user_input")) =>
        /\ \A table \in Tables : IsPrefix(method_call.before[table], method_call.after[table])
        /\ (ToolRun \in LoggingTools /\ ToolSucceeded) => Added(DomainTable(ToolRun)) = 1

C23_Witness ==
    /\ Returned("process_user_input")
    /\ method_call.before = LoggedStore
    /\ ToolRun = "log_mood" /\ ToolSucceeded
    /\ Len(method_call.after.mood_tracking) = 2
    /\ method_call.after.mood_tracking[1] = LoggedStore.mood_tracking[1]

\* ------------------------------------------------------------------------
\* Properties of the mood score
\* ------------------------------------------------------------------------

\* C24: for a label that is not a key of the score table,
\* convert_mood_to_score gives the table score of the label that
\* extract_simple_mood_label returns for the same text, and 5 when no tier
\* matches.
C24_SameFallbackAsExtractor ==
    (Returned("convert_mood_to_score") /\ Strip(Lower(method_call.text)) \notin MoodScoreKeys) =>
        /\ method_call.score = mood_scores(extract_simple_mood_label(method_call.text))
        /\ MatchesNoTierAndNoKey(method_call.text) => method_call.score = 5

\* ------------------------------------------------------------------------
\* Trend replies

\* The turn of the call was an insights request naming one of the topics
InsightsTurnAbout(topics) ==
    /\ Returned("process_user_input")
    /\ method_call.label = "insights_request"
    /\ \E word \in topics : Contains(Lower(method_call.text), word)

HasRowOf(rows, user_id) == \E k \in 1..Len(rows) : rows[k].user_id = user_id

\* C25: an insights request of the logged-in user that mentions mood, with a
\* mood entry stored, is answered by the mood handler, and one that mentions
\* glucose or cgm (and not mood), with a reading stored, by the glucose
\* handler; neither gets the generic error reply.
C25_TrendsReplyWithData ==
    /\ (InsightsTurnAbout({"mood"}) /\ HasRowOf(method_call.before.mood_tracking, "1001")) =>
           method_call.reply.agent_used = "MoodTrackerAgent"
    /\ (/\ InsightsTurnAbout({"glucose", "cgm"})
        /\ ~InsightsTurnAbout({"mood"})
        /\ HasRowOf(method_call.before.cgm_readings, "1001")) =>
           method_call.reply.agent_used = "CGMAgent"

\* ------------------------------------------------------------------------
\* Agreement of the session fields

HandlerRefs(hs) ==
    {hs.cgm_agent, hs.mood_tracker_agent, hs.food_intake_agent, hs.meal_planner_agent}

\* C26: in every reachable state system_state is "authenticated" exactly
\* when authenticated_user_id is set; when authenticated the four handler
\* references are objects bound to authenticated_user_id, and when
\* unauthenticated all four are null, a failing handler factory included.
C26_SessionFieldsAgree ==
    /\ (health_system.system_state = "authenticated") <=>
           (health_system.authenticated_user_id # None)
    /\ health_system.system_state = "authenticated" =>
           HandlerRefs(health_system) = {Handler(health_system.authenticated_user_id)}
    /\ health_system.system_state = "unauthenticated" =>
           HandlerRefs(health_system) = {NullRef}

\* ------------------------------------------------------------------------
\* Changes of the authenticated identity

\* The step replaces one user's id by another user's id
IdentitySwitched ==
    /\ health_system.authenticated_user_id # None
    /\ health_system'.authenticated_user_id # None
    /\ health_system'.authenticated_user_id # health_system.authenticated_user_id

\* A dispatcher turn of an authenticated session on an input shaped like a
\* user id
IdShapedTurnWhileAuthenticated ==
    /\ call'.op \in {"process_user_input", "process_health_request"}
    /\ call'.was = "authenticated"
    /\ call'.input \in IdShaped

\* Such a turn goes to intent handling and keeps the identity
RoutedToIntentHandling ==
    /\ call'.branch \in IntentLabels
    /\ health_system'.authenticated_user_id = health_system.authenticated_user_id

\* C27 as stated: no single step takes authenticated_user_id from one user's
\* id to a different user's id, and an input shaped like a user id given to
\* an authenticated session is routed to intent handling and does not
\* re-authenticate.
C27_IdentityNeverSwitches ==
    [][/\ ~IdentitySwitched
       /\ IdShapedTurnWhileAuthenticated => RoutedToIntentHandling]_vars

\* C27: only the authenticate_user tool, which resets the session before it
\* authenticates, takes authenticated_user_id from one user's id to a
\* different one in a single step; a dispatcher turn of an authenticated
\* session on an input shaped like a user id is routed to intent handling
\* and keeps the identity.
C27_IdentitySwitchesOnlyByAuthenticateTool ==
    [][/\ IdentitySwitched => call'.op = "authenticate_user"
       /\ IdShapedTurnWhileAuthenticated => RoutedToIntentHandling]_vars

\* The id of another known user was typed into an authenticated session,
\* which kept its identity.
C27_Witness ==
    /\ call.op = "process_user_input"
    /\ call.was = "authenticated"
    /\ call.input \in IdShaped \cap Known
    /\ health_system.system_state = "authenticated"
    /\ health_system.authenticated_user_id # Strip(call.input)

\* ------------------------------------------------------------------------
\* The user of the rows a step writes

\* The rows the step appends to a table
RowsAppended(table) ==
    {db'[table][k] : k \in (Len(db[table]) + 1)..Len(db'[table])}

SomeRowAppended == \E table \in Tables : RowsAppended(table) # {}

\* C28: every row a step writes to the store (mood, reading, alert, food
\* intake, meal plan, interaction log) carries the id of the user who is
\* authenticated during that step, whatever log-ins and log-outs came
\* before; no row is written under another id or while nobody is logged in.
C28_RowsCarryAuthenticatedUser ==
    [][SomeRowAppended =>
           /\ health_system.authenticated_user_id # None
           /\ health_system'.authenticated_user_id = health_system.authenticated_user_id
           /\ \A table \in Tables : \A row \in RowsAppended(table) :
                  row.user_id = health_system.authenticated_user_id]_vars

\* A session that was another user's before (the interrupt agent still
\* holds that user) has written a row under the id now authenticated.
C28_Witness ==
    /\ health_system.system_state = "authenticated"
    /\ health_system.interrupt_agent.authenticated_user_id
           \notin {None, health_system.authenticated_user_id}
    /\ TotalRows(db) > 0
    /\ \A table \in Tables : \A k \in 1..Len(db[table]) :
           db[table][k].user_id = health_system.authenticated_user_id

\* ------------------------------------------------------------------------
\* The mood row log_mood stores

LastRow(rows) == rows[Len(rows)]

\* The call appended one mood row
MoodRowStored ==
    Len(method_call.after.mood_tracking) = Len(method_call.before.mood_tracking) + 1

\* The labels extract_simple_mood_label can return
ExtractorLabels ==
    {"terrible", "depressed", "sad", "tired", "bad", "ecstatic", "excited", "great", "happy",
     "good", "okay", "down", "neutral"}

\* C29: a successful log_mood stores the label extract_simple_mood_label
\* returns for the description, with the score the table holds for that
\* label; every label the extractor returns is a key of the table; the turn
\* "I'm feeling really great today!" stores the label "great" with score 8.
C29_StoredLabelAndTableScore ==
    /\ (Returned("log_mood") /\ method_call.label = "success") =>
           /\ MoodRowStored
           /\ LastRow(method_call.after.mood_tracking).mood_label =
                  extract_simple_mood_label(method_call.text)
           /\ LastRow(method_call.after.mood_tracking).mood_label \in MoodScoreKeys \cap ExtractorLabels
           /\ LastRow(method_call.after.mood_tracking).mood_score =
                  mood_scores(LastRow(method_call.after.mood_tracking).mood_label)
    /\ (Returned("process_user_input") /\ method_call.text = "I'm feeling really great today!") =>
           /\ MoodRowStored
           /\ LastRow(method_call.after.mood_tracking).mood_label = "great"
           /\ LastRow(method_call.after.mood_tracking).mood_score = 8

\* log_mood stored a label that the keyword tiers of the score mapping
\* would have scored differently from the table.
C29_Witness ==
    /\ Returned("log_mood")
    /\ method_call.label = "success"
    /\ method_call.text = "not bad"
    /\ LastRow(method_call.after.mood_tracking).mood_label = "bad"
    /\ LastRow(method_call.after.mood_tracking).mood_score = 4

\* ------------------------------------------------------------------------
\* What a reply reports as logged

\* The table of the domain a reply names in data_logged
LoggedTable(data_logged) ==
    CASE data_logged = "mood" -> "mood_tracking"
      [] data_logged = "glucose" -> "cgm_readings"
      [] data_logged = "food" -> "food_intake"

\* C30: when the reply of a process_user_input turn carries data_logged, the
\* turn appended a row for the authenticated user to the table of that
\* domain, and the handler of the turn did not return status "error".
C30_DataLoggedMeansRowStored ==
    [][(call'.op = "process_user_input" /\ reply'.data_logged # None) =>
           /\ \E row \in RowsAppended(LoggedTable(reply'.data_logged)) :
                  row.user_id = health_system.authenticated_user_id
           /\ call'.handler_call.status # "error"]_vars
====
